---- MODULE Spec2Model ----
(***************************************************************************)
(* Badminton court reservation system: the registry (ReservationSystem),   *)
(* its courts, reservations and transaction journal, modelled from         *)
(* src/badminton_court_reservation_system.py.                              *)
(*                                                                         *)
(* Python values are modelled as strings.  Two tokens stand for values     *)
(* that are not text: NoneVal (hashable, falsy, not a str) and ListVal (a  *)
(* non-empty list: truthy, not a str, unhashable).  Rates are records      *)
(* [t, v]; a float is counted in hundredths (20.0 is 2000).                *)
(***************************************************************************)
EXTENDS Integers, Sequences, FiniteSets, TLC

VARIABLES courts, reservations, transaction_log, next_reservation_id, result,
          threads, orphans, exclusion

vars == <<courts, reservations, transaction_log, next_reservation_id, result,
          threads, orphans, exclusion>>

\* the callers of the registry: the call each thread is in, the Court objects
\* the registry no longer holds, and whether the callers take turns
callers == <<threads, orphans, exclusion>>

(***************************************************************************)
(* Bounds of the model.                                                    *)
(***************************************************************************)
MaxLog == 4
MaxFailed == 1

(***************************************************************************)
(* Python values.                                                          *)
(***************************************************************************)
NoneVal == "<None>"
ListVal == "<list>"

\* mutant of Truthy: every value counts as true
Truthy_all(v) == v = v

\* bool(v)
Truthy(v) == v \notin {"", NoneVal}
IsStr(v) == v \notin {NoneVal, ListVal}
Hashable(v) == v # ListVal

Float(n) == [t |-> "float", v |-> n]
NaN == [t |-> "nan", v |-> 0]
Inf == [t |-> "inf", v |-> 0]
BadText == [t |-> "str_bad", v |-> 0]
NoneRate == [t |-> "None", v |-> 0]

TextNum(n) == [t |-> "str_num", v |-> n]

\* float(hourly_rate): [exc, val]
float(hourly_rate) ==
    CASE hourly_rate.t = "str_bad" -> [exc |-> "ValueError", val |-> hourly_rate]
      [] hourly_rate.t = "None" -> [exc |-> "TypeError", val |-> hourly_rate]
      [] hourly_rate.t = "str_num" -> [exc |-> "none", val |-> Float(hourly_rate.v)]
      [] OTHER -> [exc |-> "none", val |-> hourly_rate]

\* rate <= 0 on floats (every comparison with nan is false)
LeqZero(rate) == rate.t = "float" /\ rate.v <= 0

CreditLimit == 5000

\* mutant of GtLimit: the limit itself is refused
GtLimit_inclusive(cost) == \/ cost.t = "inf"
                           \/ cost.t = "float" /\ cost.v >= 5000

\* total_cost > 50 on floats
GtLimit(cost) == \/ cost.t = "inf"
                 \/ cost.t = "float" /\ cost.v > CreditLimit

(***************************************************************************)
(* Error taxonomy.                                                         *)
(***************************************************************************)
NoExc == [kind |-> "none", message |-> <<>>, error_code |-> "None"]

\* f"{amount}" of a float, given in hundredths: 5001 is "50.01", 2000 is "20.0"
format(amount) ==
    IF amount.t # "float" THEN amount.t
    ELSE LET n == IF amount.v < 0 THEN 0 - amount.v ELSE amount.v
             cents == n % 100
             digits == IF cents % 10 = 0 THEN ToString(cents \div 10)
                       ELSE IF cents < 10 THEN "0" \o ToString(cents)
                       ELSE ToString(cents)
         IN  (IF amount.v < 0 THEN "-" ELSE "") \o ToString(n \div 100) \o "." \o digits

\* ReservationException.__init__ with both arguments; the code "None" is None
ReservationException_init(message, error_code) ==
    [kind |-> "ReservationException", message |-> message, error_code |-> error_code]

ReservationException(message) ==
    [kind |-> "ReservationException", message |-> message, error_code |-> "None"]

CourtUnavailableError(court_id, time_slot) ==
    [kind |-> "CourtUnavailableError",
     message |-> <<"Court ", court_id, " is unavailable at ", time_slot>>,
     error_code |-> "C001"]

PaymentFailedError(reservation_id, amount) ==
    [kind |-> "PaymentFailedError",
     message |-> <<"Payment failed for reservation ", reservation_id, ", amount: $",
                   format(amount)>>,
     error_code |-> "P001"]

ValueError(message) ==
    [kind |-> "ValueError", message |-> message, error_code |-> "None"]

TypeError == [kind |-> "TypeError", message |-> <<"TypeError">>, error_code |-> "None"]

\* mutant of str: the code is left out
str_message(e) == e.message

\* ReservationException.__str__ (str() of a built-in error is its message);
\* "if self.error_code" is false for None and for the empty text
str(e) == IF e.error_code \notin {"None", ""}
          THEN <<"[", e.error_code, "] ">> \o e.message
          ELSE e.message

\* the classes an "except ReservationException" clause catches
IsReservationException(e) ==
    e.kind \in {"ReservationException", "CourtUnavailableError", "PaymentFailedError"}

(***************************************************************************)
(* Court.                                                                  *)
(***************************************************************************)
EmptyDict == [k \in {} |-> <<>>]

\* dict[key] = value
Put(dict, key, value) ==
    [k \in DOMAIN dict \cup {key} |-> IF k = key THEN value ELSE dict[k]]

\* the record with one more key
With(record, key, value) ==
    [k \in DOMAIN record \cup {key} |-> IF k = key THEN value ELSE record[k]]

\* Court.__init__: [exc, obj]
Court_init(court_id, hourly_rate) ==
    LET none == NoneVal
        invalid(e) == [exc |-> ReservationException(<<"Invalid court data: ">> \o str(e)),
                       obj |-> none]
    IN  IF ~Truthy(court_id) \/ ~IsStr(court_id)
        THEN invalid(ValueError(<<"Court ID must be a non-empty string">>))
        ELSE LET rate == float(hourly_rate)
             IN  IF rate.exc = "ValueError"
                 THEN invalid(ValueError(<<"could not convert string to float">>))
                 ELSE IF rate.exc = "TypeError"
                 THEN [exc |-> TypeError, obj |-> none]
                 ELSE IF LeqZero(rate.val)
                 THEN invalid(ValueError(<<"Hourly rate must be positive">>))
                 ELSE [exc |-> NoExc,
                       obj |-> [class |-> "Court", court_id |-> court_id,
                                hourly_rate |-> rate.val, schedule |-> EmptyDict]]

\* a value that is not a Court object, passed where one is expected
NotACourt == [class |-> "str"]

\* isinstance(court, Court)
IsCourt(court) == court.class = "Court"

\* mutant of append: the element is put in front
append_front(list, x) == <<x>> \o list

\* list.append(x)
append(list, x) == Append(list, x)

\* membership of a slot in a date's list
InList(x, list) == \E i \in 1..Len(list) : list[i] = x

\* mutant of is_available: a booked slot is not refused
is_available_unchecked(court, date, time_slot) ==
    IF ~Hashable(date)
    THEN [exc |-> TypeError, ret |-> FALSE]
    ELSE [exc |-> NoExc, ret |-> TRUE]

\* mutant of is_available: a booked slot is answered with false
is_available_false(court, date, time_slot) ==
    IF ~Hashable(date)
    THEN [exc |-> TypeError, ret |-> FALSE]
    ELSE IF date \notin DOMAIN court.schedule
    THEN [exc |-> NoExc, ret |-> TRUE]
    ELSE [exc |-> NoExc, ret |-> ~InList(time_slot, court.schedule[date])]

\* Court.is_available: [exc, ret]
is_available(court, date, time_slot) ==
    IF ~Hashable(date)
    THEN [exc |-> TypeError, ret |-> FALSE]
    ELSE IF date \notin DOMAIN court.schedule
    THEN [exc |-> NoExc, ret |-> TRUE]
    ELSE IF InList(time_slot, court.schedule[date])
    THEN [exc |-> CourtUnavailableError(court.court_id, time_slot), ret |-> FALSE]
    ELSE [exc |-> NoExc, ret |-> TRUE]

(***************************************************************************)
(* Reservation.  A reservation refers to its Court object by the court's   *)
(* key in the registry (courts are never replaced or removed).             *)
(***************************************************************************)
\* mutant of Reservation_init: the handler wraps every error of the try
\* block, CourtUnavailableError included, into a ReservationException
Reservation_init_wraps(reservation_id, player_name, court, date, time_slot) ==
    LET new == [reservation_id |-> reservation_id, player_name |-> player_name,
                court |-> court.court_id, date |-> date, time_slot |-> time_slot,
                status |-> "pending", total_cost |-> court.hourly_rate]
        invalid(e) == [exc |-> ReservationException(<<"Invalid reservation: ">> \o str(e)),
                       obj |-> NoneVal, court |-> court]
    IN  IF ~Truthy(reservation_id) \/ ~Truthy(player_name)
        THEN invalid(ValueError(<<"Reservation ID and player name are required">>))
        ELSE IF ~IsCourt(court)
        THEN invalid(ValueError(<<"Valid Court object is required">>))
        ELSE LET avail == is_available(court, date, time_slot)
             IN  IF avail.exc # NoExc
                 THEN invalid(avail.exc)
                 ELSE [exc |-> NoExc,
                       obj |-> new,
                       court |-> [court EXCEPT !.schedule =
                                    Put(@, date,
                                        append(IF date \in DOMAIN @ THEN @[date] ELSE <<>>,
                                               time_slot))]]

\* mutant of Reservation_init: the slot is not added to the schedule
Reservation_init_unbooked(reservation_id, player_name, court, date, time_slot) ==
    LET new == [reservation_id |-> reservation_id, player_name |-> player_name,
                court |-> court.court_id, date |-> date, time_slot |-> time_slot,
                status |-> "pending", total_cost |-> court.hourly_rate]
        invalid(e) == [exc |-> ReservationException(<<"Invalid reservation: ">> \o str(e)),
                       obj |-> NoneVal, court |-> court]
    IN  IF ~Truthy(reservation_id) \/ ~Truthy(player_name)
        THEN invalid(ValueError(<<"Reservation ID and player name are required">>))
        ELSE IF ~IsCourt(court)
        THEN invalid(ValueError(<<"Valid Court object is required">>))
        ELSE LET avail == is_available(court, date, time_slot)
             IN  IF avail.exc # NoExc
                 THEN [exc |-> avail.exc, obj |-> NoneVal, court |-> court]
                 ELSE [exc |-> NoExc, obj |-> new, court |-> court]

\* Reservation.__init__: [exc, obj, court], court being the Court after the call
Reservation_init(reservation_id, player_name, court, date, time_slot) ==
    LET new == [reservation_id |-> reservation_id, player_name |-> player_name,
                court |-> court.court_id, date |-> date, time_slot |-> time_slot,
                status |-> "pending", total_cost |-> court.hourly_rate]
        invalid(e) == [exc |-> ReservationException(<<"Invalid reservation: ">> \o str(e)),
                       obj |-> NoneVal, court |-> court]
    IN  IF ~Truthy(reservation_id) \/ ~Truthy(player_name)
        THEN invalid(ValueError(<<"Reservation ID and player name are required">>))
        ELSE IF ~IsCourt(court)
        THEN invalid(ValueError(<<"Valid Court object is required">>))
        ELSE LET avail == is_available(court, date, time_slot)
             IN  IF avail.exc # NoExc
                 THEN [exc |-> avail.exc, obj |-> NoneVal, court |-> court]
                 ELSE [exc |-> NoExc,
                       obj |-> new,
                       court |-> [court EXCEPT !.schedule =
                                    Put(@, date,
                                        append(IF date \in DOMAIN @ THEN @[date] ELSE <<>>,
                                               time_slot))]]

\* mutant of PaymentMethods: a fourth method is accepted
PaymentMethods_cheque == {"credit", "cash", "online", "cheque"}

PaymentMethods == {"credit", "cash", "online"}

\* mutant of process_payment: the status is not checked
process_payment_unchecked(reservation, payment_method) ==
    LET payment_log == [reservation_id |-> reservation.reservation_id,
                        amount |-> reservation.total_cost,
                        method |-> payment_method,
                        status |-> "pending",
                        error |-> <<>>]
        finally(out) ==
            With(out, "printed",
                 <<(<<"Payment processing completed: ", out.payment_log.status>>)>>)
        failed(e) == finally([exc |-> e, obj |-> reservation,
                              payment_log |-> [payment_log EXCEPT !.status = "failed",
                                                                  !.error = str(e)]])
    IN  IF payment_method \notin PaymentMethods
        THEN failed(ValueError(<<"Invalid payment method">>))
        ELSE IF payment_method = "credit" /\ GtLimit(reservation.total_cost)
        THEN failed(PaymentFailedError(reservation.reservation_id, reservation.total_cost))
        ELSE finally([exc |-> NoExc,
                      obj |-> [reservation EXCEPT !.status = "confirmed"],
                      payment_log |-> [payment_log EXCEPT !.status = "successful"]])

\* mutant of process_payment: a failure leaves the record's status as it was
process_payment_pending(reservation, payment_method) ==
    LET payment_log == [reservation_id |-> reservation.reservation_id,
                        amount |-> reservation.total_cost,
                        method |-> payment_method,
                        status |-> "pending",
                        error |-> <<>>]
        finally(out) ==
            With(out, "printed",
                 <<(<<"Payment processing completed: ", out.payment_log.status>>)>>)
        failed(e) == finally([exc |-> e, obj |-> reservation,
                              payment_log |-> [payment_log EXCEPT !.error = str(e)]])
    IN  IF reservation.status # "pending"
        THEN failed(ReservationException(
                      <<"Cannot process payment for non-pending reservation">>))
        ELSE IF payment_method \notin PaymentMethods
        THEN failed(ValueError(<<"Invalid payment method">>))
        ELSE IF payment_method = "credit" /\ GtLimit(reservation.total_cost)
        THEN failed(PaymentFailedError(reservation.reservation_id, reservation.total_cost))
        ELSE finally([exc |-> NoExc,
                      obj |-> [reservation EXCEPT !.status = "confirmed"],
                      payment_log |-> [payment_log EXCEPT !.status = "successful"]])

\* mutant of process_payment: the payment settles the cost of the reservation
process_payment_settles(reservation, payment_method) ==
    LET paid == process_payment_unchecked(reservation, payment_method)
    IN  [paid EXCEPT !.obj.total_cost = Float(0)]

\* mutant of process_payment: the method is checked before the status
process_payment_method_first(reservation, payment_method) ==
    LET payment_log == [reservation_id |-> reservation.reservation_id,
                        amount |-> reservation.total_cost,
                        method |-> payment_method,
                        status |-> "pending",
                        error |-> <<>>]
        finally(out) ==
            With(out, "printed",
                 <<(<<"Payment processing completed: ", out.payment_log.status>>)>>)
        failed(e) == finally([exc |-> e, obj |-> reservation,
                              payment_log |-> [payment_log EXCEPT !.status = "failed",
                                                                  !.error = str(e)]])
    IN  IF payment_method \notin PaymentMethods
        THEN failed(ValueError(<<"Invalid payment method">>))
        ELSE IF reservation.status # "pending"
        THEN failed(ReservationException(
                      <<"Cannot process payment for non-pending reservation">>))
        ELSE IF payment_method = "credit" /\ GtLimit(reservation.total_cost)
        THEN failed(PaymentFailedError(reservation.reservation_id, reservation.total_cost))
        ELSE finally([exc |-> NoExc,
                      obj |-> [reservation EXCEPT !.status = "confirmed"],
                      payment_log |-> [payment_log EXCEPT !.status = "successful"]])

\* Reservation.process_payment: [exc, obj, payment_log]
process_payment(reservation, payment_method) ==
    LET payment_log == [reservation_id |-> reservation.reservation_id,
                        amount |-> reservation.total_cost,
                        method |-> payment_method,
                        status |-> "pending",
                        error |-> <<>>]
        finally(out) ==
            With(out, "printed",
                 <<(<<"Payment processing completed: ", out.payment_log.status>>)>>)
        failed(e) == finally([exc |-> e, obj |-> reservation,
                              payment_log |-> [payment_log EXCEPT !.status = "failed",
                                                                  !.error = str(e)]])
    IN  IF reservation.status # "pending"
        THEN failed(ReservationException(
                      <<"Cannot process payment for non-pending reservation">>))
        ELSE IF payment_method \notin PaymentMethods
        THEN failed(ValueError(<<"Invalid payment method">>))
        ELSE IF payment_method = "credit" /\ GtLimit(reservation.total_cost)
        THEN failed(PaymentFailedError(reservation.reservation_id, reservation.total_cost))
        ELSE finally([exc |-> NoExc,
                      obj |-> [reservation EXCEPT !.status = "confirmed"],
                      payment_log |-> [payment_log EXCEPT !.status = "successful"]])

(***************************************************************************)
(* ReservationSystem.  sys is the registry [courts, reservations,         *)
(* transaction_log]; each operation yields the registry after the call,    *)
(* the error it raised (NoExc when it returned) and what it returned.      *)
(***************************************************************************)
\* mutant of Failed: the status is left as it was
Failed_pending(transaction, e) ==
    [k \in DOMAIN transaction \cup {"error"} |->
        IF k = "error" THEN str(e) ELSE transaction[k]]

\* transaction["status"] = "failed"; transaction["error"] = str(e)
Failed(transaction, e) ==
    [k \in DOMAIN transaction \cup {"error"} |->
        CASE k = "status" -> "failed"
          [] k = "error" -> str(e)
          [] OTHER -> transaction[k]]

\* mutant of Completed: the status is left as it was
Completed_pending(transaction) == transaction

\* transaction["status"] = "completed"
Completed(transaction) == [transaction EXCEPT !.status = "completed"]

\* the call ends by raising e, its transaction dict being as given
Raise(sys, e, transaction) ==
    [sys |-> sys, exc |-> e, ret |-> "None", transaction |-> transaction]

\* the finally clause of an operation of the registry: the notification
\* print(f"<prefix>{transaction['status']}"), after what was printed before
Finally(prefix, out) ==
    With(out, "printed",
         (IF "printed" \in DOMAIN out THEN out.printed ELSE <<>>)
         \o <<(<<prefix, out.transaction.status>>)>>)

\* mutant of add_court: an identifier already present is not refused
add_court_overwrites(sys, court_id, hourly_rate) ==
    LET transaction == [type |-> "add_court", court_id |-> court_id,
                        status |-> "pending"]
        logged(e) == Raise([sys EXCEPT !.transaction_log =
                                  append(@, Failed(transaction, e))], e,
                            Failed(transaction, e))
    IN  Finally("Court transaction: ",
        IF ~Hashable(court_id)
        THEN Raise(sys, TypeError, transaction)
        ELSE LET court == Court_init(court_id, hourly_rate)
             IN  IF IsReservationException(court.exc)
                 THEN logged(court.exc)
                 ELSE IF court.exc # NoExc
                 THEN Raise(sys, court.exc, transaction)
                 ELSE [sys |-> [sys EXCEPT !.courts = Put(@, court_id, court.obj),
                                           !.transaction_log =
                                               append(@, Completed(transaction))],
                       exc |-> NoExc, ret |-> court_id,
                       transaction |-> Completed(transaction)])

\* ReservationSystem.add_court
add_court(sys, court_id, hourly_rate) ==
    LET transaction == [type |-> "add_court", court_id |-> court_id,
                        status |-> "pending"]
        logged(e) == Raise([sys EXCEPT !.transaction_log =
                                  append(@, Failed(transaction, e))], e,
                            Failed(transaction, e))
    IN  Finally("Court transaction: ",
        IF ~Hashable(court_id)
        THEN Raise(sys, TypeError, transaction)
        ELSE IF court_id \in DOMAIN sys.courts
        THEN logged(ReservationException(<<"Court ", court_id, " already exists">>))
        ELSE LET court == Court_init(court_id, hourly_rate)
             IN  IF IsReservationException(court.exc)
                 THEN logged(court.exc)
                 ELSE IF court.exc # NoExc
                 THEN Raise(sys, court.exc, transaction)
                 ELSE [sys |-> [sys EXCEPT !.courts = Put(@, court_id, court.obj),
                                           !.transaction_log =
                                               append(@, Completed(transaction))],
                       exc |-> NoExc, ret |-> court_id,
                       transaction |-> Completed(transaction)])

\* mutant of make_reservation: a reservation id already present is not refused
make_reservation_overwrites(sys, reservation_id, player_name, court_id, date, time_slot) ==
    LET transaction == [type |-> "make_reservation",
                        reservation_id |-> reservation_id,
                        status |-> "pending"]
        logged(e) == Raise([sys EXCEPT !.transaction_log =
                                  append(@, Failed(transaction, e))], e,
                            Failed(transaction, e))
    IN  Finally("Reservation transaction: ",
        IF ~Hashable(reservation_id) \/ ~Hashable(court_id)
        THEN Raise(sys, TypeError, transaction)
        ELSE IF court_id \notin DOMAIN sys.courts
        THEN logged(ReservationException(<<"Court ", court_id, " does not exist">>))
        ELSE LET reservation == Reservation_init(reservation_id, player_name,
                                                 sys.courts[court_id], date, time_slot)
             IN  IF IsReservationException(reservation.exc)
                 THEN logged(reservation.exc)
                 ELSE IF reservation.exc # NoExc
                 THEN Raise(sys, reservation.exc, transaction)
                 ELSE [sys |-> [sys EXCEPT
                                  !.courts = Put(@, court_id, reservation.court),
                                  !.reservations = Put(@, reservation_id, reservation.obj),
                                  !.transaction_log = append(@, Completed(transaction))],
                       exc |-> NoExc, ret |-> reservation_id,
                       transaction |-> Completed(transaction)])

\* ReservationSystem.make_reservation
make_reservation(sys, reservation_id, player_name, court_id, date, time_slot) ==
    LET transaction == [type |-> "make_reservation",
                        reservation_id |-> reservation_id,
                        status |-> "pending"]
        logged(e) == Raise([sys EXCEPT !.transaction_log =
                                  append(@, Failed(transaction, e))], e,
                            Failed(transaction, e))
    IN  Finally("Reservation transaction: ",
        IF ~Hashable(reservation_id)
        THEN Raise(sys, TypeError, transaction)
        ELSE IF reservation_id \in DOMAIN sys.reservations
        THEN logged(ReservationException(
                      <<"Reservation ", reservation_id, " already exists">>))
        ELSE IF ~Hashable(court_id)
        THEN Raise(sys, TypeError, transaction)
        ELSE IF court_id \notin DOMAIN sys.courts
        THEN logged(ReservationException(<<"Court ", court_id, " does not exist">>))
        ELSE LET reservation == Reservation_init(reservation_id, player_name,
                                                 sys.courts[court_id], date, time_slot)
             IN  IF IsReservationException(reservation.exc)
                 THEN logged(reservation.exc)
                 ELSE IF reservation.exc # NoExc
                 THEN Raise(sys, reservation.exc, transaction)
                 ELSE [sys |-> [sys EXCEPT
                                  !.courts = Put(@, court_id, reservation.court),
                                  !.reservations = Put(@, reservation_id, reservation.obj),
                                  !.transaction_log = append(@, Completed(transaction))],
                       exc |-> NoExc, ret |-> reservation_id,
                       transaction |-> Completed(transaction)])

\* mutant of Remove: the slot stays in the list
Remove_nothing(list, x) == list

\* list.remove(x): the list without the first occurrence of x
RECURSIVE Remove(_, _)
Remove(list, x) ==
    IF list = <<>> THEN <<>>
    ELSE IF Head(list) = x THEN Tail(list)
    ELSE <<Head(list)>> \o Remove(Tail(list), x)

\* ReservationSystem._rollback_cancellation
rollback_cancellation(sys, reservation_id) ==
    LET reservation == sys.reservations[reservation_id]
        date == reservation.date
        court == sys.courts[reservation.court]
    IN  [sys EXCEPT
           !.courts = Put(@, reservation.court,
                          [court EXCEPT !.schedule =
                             Put(@, date,
                                 append(IF date \in DOMAIN @ THEN @[date] ELSE <<>>,
                                        reservation.time_slot))]),
           !.reservations = Put(@, reservation_id,
                                [reservation EXCEPT !.status = "confirmed"])]

\* mutant of cancel_found: the cancelled reservation is deleted from the registry
cancel_found_deletes(sys, reservation_id) ==
    [sys |-> [sys EXCEPT
                !.reservations = [r \in DOMAIN @ \ {reservation_id} |-> @[r]]],
     exc |-> NoExc,
     court_updated |-> FALSE]

\* mutant of cancel_found: the call fails after the slot was removed
cancel_found_fails(sys, reservation_id) ==
    LET reservation == sys.reservations[reservation_id]
        court == sys.courts[reservation.court]
        date == reservation.date
        present == /\ date \in DOMAIN court.schedule
                   /\ InList(reservation.time_slot, court.schedule[date])
        removed == IF present
                   THEN [court EXCEPT !.schedule[date] = Remove(@, reservation.time_slot)]
                   ELSE court
    IN  [sys |-> [sys EXCEPT !.courts = Put(@, reservation.court, removed)],
         exc |-> ReservationException(<<"Status update failed">>),
         court_updated |-> present]

\* the try block of cancel_reservation once the reservation is found:
\* [sys, exc, court_updated]
cancel_found(sys, reservation_id) ==
    LET reservation == sys.reservations[reservation_id]
        court == sys.courts[reservation.court]
        date == reservation.date
        time_slot == reservation.time_slot
        present == /\ date \in DOMAIN court.schedule
                   /\ InList(time_slot, court.schedule[date])
        removed == IF present
                   THEN [court EXCEPT !.schedule[date] = Remove(@, time_slot)]
                   ELSE court
    IN  [sys |-> [sys EXCEPT
                    !.courts = Put(@, reservation.court, removed),
                    !.reservations =
                        Put(@, reservation_id,
                            [reservation EXCEPT !.status = "cancelled"])],
         exc |-> NoExc,
         court_updated |-> present]

\* mutant of cancel_try: an unknown id is not refused
cancel_try_unchecked(sys, reservation_id) ==
    IF reservation_id \notin DOMAIN sys.reservations
    THEN [sys |-> sys, exc |-> NoExc, court_updated |-> FALSE]
    ELSE cancel_found(sys, reservation_id)

\* the try block of cancel_reservation: [sys, exc, court_updated]
cancel_try(sys, reservation_id) ==
    IF reservation_id \notin DOMAIN sys.reservations
    THEN [sys |-> sys,
          exc |-> ReservationException(
                    <<"Reservation ", reservation_id, " does not exist">>),
          court_updated |-> FALSE]
    ELSE cancel_found(sys, reservation_id)

\* ReservationSystem.cancel_reservation
cancel_reservation(sys, reservation_id) ==
    LET transaction == [type |-> "cancel_reservation",
                        reservation_id |-> reservation_id,
                        status |-> "pending"]
        body == cancel_try(sys, reservation_id)
    IN  Finally("Cancellation transaction: ",
        IF ~Hashable(reservation_id)
        THEN Raise(sys, TypeError, transaction)
        ELSE IF IsReservationException(body.exc)
        THEN LET rolled == IF body.court_updated
                           THEN rollback_cancellation(body.sys, reservation_id)
                           ELSE body.sys
             IN  With(Raise([rolled EXCEPT !.transaction_log =
                                     append(@, Failed(transaction, body.exc))],
                            body.exc, Failed(transaction, body.exc)),
                      "printed",
                      IF body.court_updated
                      THEN <<(<<"Rollback operation completed">>)>> ELSE <<>>)
        ELSE [sys |-> [body.sys EXCEPT !.transaction_log =
                                    append(@, Completed(transaction))],
              exc |-> NoExc, ret |-> "True",
              transaction |-> Completed(transaction)])

\* mutant of AllSlots: the slots of the afternoon only
AllSlots_afternoon == <<"12:00", "13:00", "14:00", "15:00", "16:00", "17:00", "18:00">>

AllSlots == <<"09:00", "10:00", "11:00", "12:00", "13:00",
              "14:00", "15:00", "16:00", "17:00", "18:00">>

\* mutant of Filter: a booked slot is removed only when it is the first
Filter_first(all_slots, booked_slots) ==
    IF all_slots = <<>> THEN <<>>
    ELSE IF InList(Head(all_slots), booked_slots) THEN Tail(all_slots)
    ELSE all_slots

\* [slot for slot in all_slots if slot not in booked_slots]
RECURSIVE Filter(_, _)
Filter(all_slots, booked_slots) ==
    IF all_slots = <<>> THEN <<>>
    ELSE (IF InList(Head(all_slots), booked_slots) THEN <<>> ELSE <<Head(all_slots)>>)
         \o Filter(Tail(all_slots), booked_slots)

\* ReservationSystem.get_available_time_slots: [exc, ret]
get_available_time_slots(sys, court_id, date) ==
    IF ~Hashable(court_id)
    THEN [exc |-> TypeError, ret |-> <<>>]
    ELSE IF court_id \notin DOMAIN sys.courts
    THEN [exc |-> ReservationException(<<"Court ", court_id, " does not exist">>),
          ret |-> <<>>]
    ELSE IF ~Hashable(date)
    THEN [exc |-> TypeError, ret |-> <<>>]
    ELSE LET court == sys.courts[court_id]
             booked_slots == IF date \in DOMAIN court.schedule
                             THEN court.schedule[date] ELSE <<>>
         IN  [exc |-> NoExc, ret |-> Filter(AllSlots, booked_slots)]

\* report["total_revenue"] += reservation.total_cost, on floats (a float is
\* counted in hundredths; nan absorbs, then infinity)
Plus(a, b) ==
    CASE a.t = "nan" \/ b.t = "nan" -> NaN
      [] a.t = "inf" \/ b.t = "inf" -> Inf
      [] OTHER -> Float(a.v + b.v)

\* mutant of IsConfirmed: every reservation that is not cancelled counts
IsConfirmed_active(reservation) == reservation.status # "cancelled"

\* reservation.status == "confirmed"
IsConfirmed(reservation) == reservation.status = "confirmed"

\* the loop of generate_report over the reservations ids: [count, revenue]
RECURSIVE Tally(_, _)
Tally(registry, ids) ==
    IF ids = {} THEN [count |-> 0, revenue |-> Float(0)]
    ELSE LET id == CHOOSE i \in ids : TRUE
             rest == Tally(registry, ids \ {id})
         IN  IF IsConfirmed(registry[id])
             THEN [count |-> rest.count + 1,
                   revenue |-> Plus(rest.revenue, registry[id].total_cost)]
             ELSE rest

\* generate_report on a day the clock gives: [exc, ret]
generate_report(sys, today) ==
    IF DOMAIN sys.reservations = {}
    THEN [exc |-> ReservationException(<<"No reservations to report">>), ret |-> "None"]
    ELSE LET tally == Tally(sys.reservations, DOMAIN sys.reservations)
         IN  [exc |-> NoExc,
              ret |-> [date |-> today,
                       total_courts |-> Cardinality(DOMAIN sys.courts),
                       total_reservations |-> Cardinality(DOMAIN sys.reservations),
                       confirmed_reservations |-> tally.count,
                       total_revenue |-> tally.revenue]]

(***************************************************************************)
(* The state machine: one registry, and the calls a client makes on it.    *)
(* result is what the last call did: the operation, the identifier it was  *)
(* given, the error raised ("none" when it returned) and the return value. *)
(***************************************************************************)
System == [courts |-> courts, reservations |-> reservations,
           transaction_log |-> transaction_log]

Outcome(op, id, exc, ret) ==
    [op |-> op, id |-> id, exc |-> exc.kind, error_code |-> exc.error_code, ret |-> ret]

\* the outcome of a call that returned an object: the kind of the object as
\* ret, and the object under a key of that kind
Returned(op, id, out, kind) ==
    IF out.exc # NoExc
    THEN Outcome(op, id, out.exc, "None")
    ELSE LET outcome == Outcome(op, id, NoExc, kind)
         IN  [k \in DOMAIN outcome \cup {kind} |->
                 IF k = kind THEN out.ret ELSE outcome[k]]

Apply(op, id, out) ==
    /\ courts' = out.sys.courts
    /\ reservations' = out.sys.reservations
    /\ transaction_log' = out.sys.transaction_log
    /\ result' = With(Outcome(op, id, out.exc, out.ret), "printed", out.printed)
    /\ UNCHANGED <<next_reservation_id, callers>>

\* the threads that call the registry
Threads == {"T1", "T2"}

\* a thread that is in no call; calls counts the calls it has made
IdleFrame == [pc |-> "idle", op |-> "", id |-> "", court |-> "", exc |-> NoExc,
              calls |-> 0]

\* ReservationSystem.__init__, and a single caller
Init ==
    /\ courts = EmptyDict
    /\ reservations = EmptyDict
    /\ transaction_log = <<>>
    /\ next_reservation_id = 1
    /\ result = Outcome("init", "", NoExc, "None")
    /\ threads = [t \in Threads |-> IdleFrame]
    /\ orphans = EmptyDict
    /\ exclusion = TRUE

AddCourt(court_id, hourly_rate) ==
    Apply("add_court", court_id, add_court(System, court_id, hourly_rate))

MakeReservation(reservation_id, player_name, court_id, date, time_slot) ==
    Apply("make_reservation", reservation_id,
          make_reservation(System, reservation_id, player_name, court_id, date, time_slot))

CancelReservation(reservation_id) ==
    Apply("cancel_reservation", reservation_id,
          cancel_reservation(System, reservation_id))

\* a client pays through the Reservation object the registry holds
ProcessPayment(reservation_id, payment_method) ==
    /\ reservation_id \in DOMAIN reservations
    /\ LET paid == process_payment(reservations[reservation_id], payment_method)
       IN  /\ reservations' = Put(reservations, reservation_id, paid.obj)
           /\ result' = With(Returned("process_payment", reservation_id,
                                      [exc |-> paid.exc, ret |-> paid.payment_log],
                                      "payment_log"),
                             "printed", paid.printed)
    /\ UNCHANGED <<courts, transaction_log, next_reservation_id, callers>>

\* mutant of GetAvailableTimeSlots: the query is entered in the journal
GetAvailableTimeSlots_journaled(court_id, date) ==
    /\ result' = Returned("get_available_time_slots", court_id,
                          get_available_time_slots(System, court_id, date), "list")
    /\ transaction_log' = append(transaction_log,
                                 [type |-> "get_available_time_slots",
                                  court_id |-> court_id, status |-> "completed"])
    /\ UNCHANGED <<courts, reservations, next_reservation_id, callers>>

GetAvailableTimeSlots(court_id, date) ==
    /\ result' = Returned("get_available_time_slots", court_id,
                          get_available_time_slots(System, court_id, date), "list")
    /\ UNCHANGED <<courts, reservations, transaction_log, next_reservation_id, callers>>

GenerateReport(today) ==
    /\ result' = Returned("generate_report", "", generate_report(System, today), "dict")
    /\ UNCHANGED <<courts, reservations, transaction_log, next_reservation_id, callers>>

\* a client asks a court of the registry itself:
\* system.courts[court_id].is_available(date, time_slot)
IsAvailable(court_id, date, time_slot) ==
    /\ court_id \in DOMAIN courts
    /\ LET out == is_available(courts[court_id], date, time_slot)
           ret == IF out.exc # NoExc THEN "None"
                  ELSE IF out.ret THEN "True" ELSE "False"
       IN  result' = With(Outcome("is_available", court_id, out.exc, ret),
                          "args", <<date, time_slot>>)
    /\ UNCHANGED <<courts, reservations, transaction_log, next_reservation_id, callers>>

\* a client constructs an error and renders it: str(e); the arguments are
\* kept under a key named after the class
Rendered(e, args) ==
    With([op |-> e.kind, id |-> "", exc |-> "none", error_code |-> e.error_code,
          ret |-> "str", message |-> e.message, str |-> str(e)],
         e.kind, args)

NewReservationException(message, error_code) ==
    /\ result' = Rendered(ReservationException_init(<<message>>, error_code),
                          <<message, error_code>>)
    /\ UNCHANGED <<courts, reservations, transaction_log, next_reservation_id, callers>>

NewCourtUnavailableError(court_id, time_slot) ==
    /\ result' = Rendered(CourtUnavailableError(court_id, time_slot),
                          <<court_id, time_slot>>)
    /\ UNCHANGED <<courts, reservations, transaction_log, next_reservation_id, callers>>

NewPaymentFailedError(reservation_id, amount) ==
    /\ result' = Rendered(PaymentFailedError(reservation_id, amount),
                          <<reservation_id, amount>>)
    /\ UNCHANGED <<courts, reservations, transaction_log, next_reservation_id, callers>>

\* a client constructs a Court itself: Court(court_id, hourly_rate)
NewCourt(court_id, hourly_rate) ==
    /\ LET court == Court_init(court_id, hourly_rate)
       IN  result' = Returned("Court", court_id,
                              [exc |-> court.exc, ret |-> court.obj], "Court")
    /\ UNCHANGED <<courts, reservations, transaction_log, next_reservation_id, callers>>

\* a client constructs a Reservation itself, on a Court of the registry or on
\* a value that is not a Court: Reservation(reservation_id, player_name,
\* court, date, time_slot); a Court it is given is the registry's own object
NewReservation(reservation_id, player_name, court, date, time_slot) ==
    /\ LET reservation == Reservation_init(reservation_id, player_name, court,
                                           date, time_slot)
       IN  /\ courts' = IF IsCourt(court)
                        THEN Put(courts, court.court_id, reservation.court)
                        ELSE courts
           /\ result' = Returned("Reservation", reservation_id,
                                 [exc |-> reservation.exc, ret |-> reservation.obj],
                                 "Reservation")
    /\ UNCHANGED <<reservations, transaction_log, next_reservation_id, callers>>

NumFailed(log) == Cardinality({i \in 1..Len(log) : log[i].status = "failed"})

\* the journal has room for the entry the call appends
Room(max_log, max_failed) ==
    /\ Len(transaction_log') <= max_log
    /\ NumFailed(transaction_log') <= max_failed

(***************************************************************************)
(* Spec: call sequences on one court, with two reservation ids and the     *)
(* empty id, two slots of one date, and rates at and around the credit     *)
(* limit.                                                                  *)
(***************************************************************************)
CourtIds == {"A"}
Rates == {Float(5000), Float(5001), Float(0)}
ReservationIds == {"R1", "R2", ""}
Players == {"John"}
Dates == {"2023-07-01"}
Slots == {"10:00", "11:00"}
Methods == {"credit", "cash", "online", "cheque"}

Next ==
    \/ \E court_id \in CourtIds, hourly_rate \in Rates :
          AddCourt(court_id, hourly_rate) /\ Room(MaxLog, MaxFailed)
    \/ \E reservation_id \in ReservationIds, player_name \in Players,
          court_id \in CourtIds, date \in Dates, time_slot \in Slots :
          /\ MakeReservation(reservation_id, player_name, court_id, date, time_slot)
          /\ Room(MaxLog, MaxFailed)
    \/ \E reservation_id \in ReservationIds :
          CancelReservation(reservation_id) /\ Room(MaxLog, MaxFailed)
    \/ \E reservation_id \in ReservationIds, payment_method \in Methods :
          ProcessPayment(reservation_id, payment_method)
    \/ \E court_id \in CourtIds, date \in Dates :
          GetAvailableTimeSlots(court_id, date)

Spec == Init /\ [][Next]_vars

(***************************************************************************)
(* SpecWide: short call sequences over a wide universe: two courts, an     *)
(* unhashable court id, empty reservation ids and player names, and rates  *)
(* that are not numbers.                                                   *)
(***************************************************************************)
MaxLogWide == 3
MaxFailedWide == 1

CourtIdsWide == {"A", "B", ListVal}
RatesWide == {Float(2000), Float(0), NoneRate}
PlayersWide == {"John", ""}
SlotsWide == {"10:00"}
MethodsWide == {"cash", "cheque"}

NextWide ==
    \/ \E court_id \in CourtIdsWide, hourly_rate \in RatesWide :
          AddCourt(court_id, hourly_rate) /\ Room(MaxLogWide, MaxFailedWide)
    \/ \E reservation_id \in ReservationIds, player_name \in PlayersWide,
          court_id \in CourtIdsWide, date \in Dates, time_slot \in SlotsWide :
          /\ MakeReservation(reservation_id, player_name, court_id, date, time_slot)
          /\ Room(MaxLogWide, MaxFailedWide)
    \/ \E reservation_id \in ReservationIds :
          CancelReservation(reservation_id) /\ Room(MaxLogWide, MaxFailedWide)
    \/ \E reservation_id \in ReservationIds, payment_method \in MethodsWide :
          ProcessPayment(reservation_id, payment_method)
    \/ \E court_id \in CourtIdsWide, date \in Dates :
          GetAvailableTimeSlots(court_id, date)

SpecWide == Init /\ [][NextWide]_vars

(***************************************************************************)
(* SpecDeep: longer call sequences over a narrow universe: one court, two  *)
(* reservation ids, one slot.                                              *)
(***************************************************************************)
MaxLogDeep == 5

NextDeep ==
    \/ AddCourt("A", Float(5000)) /\ Room(MaxLogDeep, MaxFailed)
    \/ \E reservation_id \in {"R1", "R2"} :
          /\ MakeReservation(reservation_id, "John", "A", "2023-07-01", "10:00")
          /\ Room(MaxLogDeep, MaxFailed)
    \/ \E reservation_id \in {"R1", "R2"} :
          CancelReservation(reservation_id) /\ Room(MaxLogDeep, MaxFailed)
    \/ \E reservation_id \in {"R1", "R2"} : ProcessPayment(reservation_id, "cash")
    \/ GetAvailableTimeSlots("A", "2023-07-01")
    \/ \E time_slot \in {"10:00", "11:00"} : IsAvailable("A", "2023-07-01", time_slot)

SpecDeep == Init /\ [][NextDeep]_vars

(***************************************************************************)
(* SpecObjects: a client that constructs Court and Reservation objects     *)
(* itself, with identifiers and rates of every kind, the reservations on   *)
(* the registry's court or on a value that is not a Court.                 *)
(***************************************************************************)
MaxLogObjects == 2
MaxFailedObjects == 0

CourtIdsObjects == {"A", "", NoneVal, ListVal}
RatesObjects == {Float(1), Float(2000), Float(0), Float(-1000), TextNum(1), BadText,
                 NoneRate, NaN, Inf}
ReservationIdsObjects == {"R1", ""}
DatesObjects == {"2023-07-01", ListVal}

\* the values a client passes as court: the registry's courts and a value
\* that is not a Court
CourtArguments == {courts[c] : c \in DOMAIN courts} \cup {NotACourt}

NextObjects ==
    \/ \E court_id \in {"A", "B"} :
          AddCourt(court_id, Float(2000)) /\ Room(MaxLogObjects, MaxFailedObjects)
    \/ \E court_id \in CourtIdsObjects, hourly_rate \in RatesObjects :
          NewCourt(court_id, hourly_rate)
    \/ \E reservation_id \in ReservationIdsObjects, player_name \in PlayersWide,
          court \in CourtArguments,
          date \in DatesObjects, time_slot \in Slots :
          NewReservation(reservation_id, player_name, court, date, time_slot)

SpecObjects == Init /\ [][NextObjects]_vars

(***************************************************************************)
(* SpecDay: the registry with the courts A at 20.0 and B at 25.0, two      *)
(* reservation ids, a slot of the reference set and one outside it, and    *)
(* the report.                                                             *)
(***************************************************************************)
MaxLogDay == 4
MaxFailedDay == 0

CourtIdsDay == {"A", "B"}
RateDay == [court_id \in CourtIdsDay |-> IF court_id = "A" THEN Float(2000) ELSE Float(2500)]
ReservationIdsDay == {"R1", "R2"}
SlotsDay == {"10:00", "07:00"}
Clock == {"2023-07-01"}

NextDay ==
    \/ \E court_id \in CourtIdsDay :
          AddCourt(court_id, RateDay[court_id]) /\ Room(MaxLogDay, MaxFailedDay)
    \/ \E reservation_id \in ReservationIdsDay, court_id \in CourtIdsDay,
          time_slot \in SlotsDay :
          /\ MakeReservation(reservation_id, "John", court_id, "2023-07-01", time_slot)
          /\ Room(MaxLogDay, MaxFailedDay)
    \/ \E reservation_id \in ReservationIdsDay :
          CancelReservation(reservation_id) /\ Room(MaxLogDay, MaxFailedDay)
    \/ \E reservation_id \in ReservationIdsDay :
          ProcessPayment(reservation_id, "cash")
    \/ \E court_id \in CourtIdsDay : GetAvailableTimeSlots(court_id, "2023-07-01")
    \/ \E today \in Clock : GenerateReport(today)

SpecDay == Init /\ [][NextDay]_vars

(***************************************************************************)
(* Properties.                                                             *)
(***************************************************************************)
\* the slot is in the court's schedule under the date
Booked(court_id, date, time_slot) ==
    /\ court_id \in DOMAIN courts
    /\ date \in DOMAIN courts[court_id].schedule
    /\ \E i \in 1..Len(courts[court_id].schedule[date]) :
          courts[court_id].schedule[date][i] = time_slot

\* how many times the slot occurs in the court's schedule under the date
Occurrences(court_id, date, time_slot) ==
    IF date \in DOMAIN courts[court_id].schedule
    THEN Cardinality({i \in 1..Len(courts[court_id].schedule[date]) :
                        courts[court_id].schedule[date][i] = time_slot})
    ELSE 0

\* the non-cancelled reservations of the registry that reference the slot
Active(court_id, date, time_slot) ==
    {r \in DOMAIN reservations :
        /\ reservations[r].status # "cancelled"
        /\ reservations[r].court = court_id
        /\ reservations[r].date = date
        /\ reservations[r].time_slot = time_slot}

\* C1: every reservation of the registry whose status is not 'cancelled' has
\* its time slot in its court's schedule under its date.
C1_ActiveReservationIsBooked ==
    \A r \in DOMAIN reservations :
        reservations[r].status # "cancelled"
        => Booked(reservations[r].court, reservations[r].date, reservations[r].time_slot)

\* C2: a slot occurs in a court's schedule for a date at most once and at most
\* as often as there are non-cancelled reservations referencing it.
C2_SlotOccurrences ==
    \A c \in DOMAIN courts : \A d \in Dates, s \in Slots :
        /\ Occurrences(c, d, s) <= 1
        /\ Occurrences(c, d, s) <= Cardinality(Active(c, d, s))

\* C2 witness: a second booking of a booked slot has just been refused, and
\* the slot is in the schedule once, held by one active reservation.
C2_Witness ==
    /\ result.op = "make_reservation"
    /\ result.exc = "CourtUnavailableError"
    /\ \E c \in DOMAIN courts : \E d \in Dates, s \in Slots :
          Occurrences(c, d, s) = 1 /\ Cardinality(Active(c, d, s)) = 1

\* the last journal entry
Last(log) == log[Len(log)]

\* the step appends exactly one entry to the journal, changing no earlier one
AppendsOne ==
    /\ Len(transaction_log') = Len(transaction_log) + 1
    /\ SubSeq(transaction_log', 1, Len(transaction_log)) = transaction_log

\* the step is a call of op with the identifier id
Called(op, id) == result'.op = op /\ result'.id = id

\* the identifier is a key the registry can look up and does not hold
Fresh(reservation_id) ==
    Hashable(reservation_id) /\ reservation_id \notin DOMAIN reservations

\* what a MakeReservation of a booked slot, or of a free one, must do
MakeOutcome(court_id, date, time_slot) ==
    IF Booked(court_id, date, time_slot)
    THEN /\ result'.exc = "CourtUnavailableError"
         /\ result'.error_code = "C001"
         /\ reservations' = reservations
         /\ courts' = courts
    ELSE result'.exc = "none"

\* C3 as stated: with a fresh reservation id and a non-empty player name, a
\* MakeReservation for a slot in the schedule of a court fails with
\* CourtUnavailableError (C001) and stores nothing, and one for a slot not in
\* the schedule of the court and date succeeds.
C3_Original ==
    [][\A rid \in ReservationIds, p \in Players :
       \A c \in DOMAIN courts, d \in Dates, s \in Slots :
          (Called("make_reservation", rid) /\ Fresh(rid) /\ p # ""
             /\ MakeReservation(rid, p, c, d, s))
          => MakeOutcome(c, d, s)]_vars

\* C3 amended: the same for a fresh reservation id that is non-empty text.
C3_MakeReservationBookedOrFree ==
    [][\A rid \in ReservationIds, p \in Players :
       \A c \in DOMAIN courts, d \in Dates, s \in Slots :
          (Called("make_reservation", rid) /\ Fresh(rid) /\ rid # "" /\ IsStr(rid)
             /\ p # "" /\ MakeReservation(rid, p, c, d, s))
          => MakeOutcome(c, d, s)]_vars

\* C3 witness: a booking was refused with C001 while another slot of the same
\* court and date is free.
C3_Witness ==
    /\ result.op = "make_reservation"
    /\ result.exc = "CourtUnavailableError"
    /\ result.id \notin DOMAIN reservations
    /\ \E c \in DOMAIN courts : \E d \in Dates, s, t \in Slots :
          Booked(c, d, s) /\ ~Booked(c, d, t)

\* C4: every invocation of AddCourt, MakeReservation or CancelReservation
\* appends exactly one entry to the journal, however it ends.
C4_OneEntryPerInvocation ==
    [][result'.op \in {"add_court", "make_reservation", "cancel_reservation"}
       => AppendsOne]_vars

\* the keys and values every journal entry has
EntryOk(e) ==
    /\ e.type \in {"add_court", "make_reservation", "cancel_reservation"}
    /\ e.status \in {"completed", "failed"}
    /\ DOMAIN e \ {"error"} =
          {"type", "status", IF e.type = "add_court" THEN "court_id" ELSE "reservation_id"}
    /\ e.status = "failed" <=> "error" \in DOMAIN e
    /\ "error" \in DOMAIN e => e.error # <<>>

\* the identifier an entry carries
EntryId(e) == IF e.type = "add_court" THEN e.court_id ELSE e.reservation_id

\* C5: every journal entry has one of the three kinds, carries the identifier
\* the call was given, is 'completed' iff the call returned and 'failed' iff
\* it failed, has a non-empty error description iff it is 'failed', and is
\* never 'pending'.
C5_JournalEntries ==
    [][/\ \A i \in 1..Len(transaction_log') : EntryOk(transaction_log'[i])
       /\ Len(transaction_log') # Len(transaction_log)
          => /\ Last(transaction_log').type = result'.op
             /\ EntryId(Last(transaction_log')) = result'.id
             /\ Last(transaction_log').status = "completed" <=> result'.exc = "none"
             /\ Last(transaction_log').status = "failed" <=> result'.exc # "none"]_vars

\* C5 witness: the journal holds a completed and a failed entry.
C5_Witness ==
    /\ \E i \in 1..Len(transaction_log) : transaction_log[i].status = "completed"
    /\ Len(transaction_log) > 0
    /\ Last(transaction_log).status = "failed"
    /\ result.exc = "ReservationException"

\* C6: the journal before an operation is a prefix of the journal after it,
\* which is at most one entry longer.
C6_AppendOnly ==
    [][/\ Len(transaction_log') \in {Len(transaction_log), Len(transaction_log) + 1}
       /\ SubSeq(transaction_log', 1, Len(transaction_log)) = transaction_log]_vars

\* C6 witness: entries were appended after a failed one.
C6_Witness ==
    /\ Len(transaction_log) >= 3
    /\ transaction_log[1].status = "completed"
    /\ transaction_log[2].status = "failed"

\* C7: CancelReservation with an id not in the registry fails with
\* ReservationError, changes no schedule and no reservation, and appends one
\* 'failed' cancel_reservation entry.
C7_CancelUnknown ==
    [][\A rid \in ReservationIds :
          (Called("cancel_reservation", rid) /\ rid \notin DOMAIN reservations)
          => /\ result'.exc = "ReservationException"
             /\ courts' = courts
             /\ reservations' = reservations
             /\ AppendsOne
             /\ Last(transaction_log').type = "cancel_reservation"
             /\ Last(transaction_log').reservation_id = rid
             /\ Last(transaction_log').status = "failed"]_vars

\* C7 witness: a cancellation of an unknown id failed while a slot is booked.
C7_Witness ==
    /\ result.op = "cancel_reservation"
    /\ result.exc = "ReservationException"
    /\ result.id \notin DOMAIN reservations
    /\ \E c \in DOMAIN courts : \E d \in Dates, s \in Slots : Booked(c, d, s)

\* the slots GetAvailableTimeSlots returns for a court and date of registry sys
Available(sys, court_id, date) == get_available_time_slots(sys, court_id, date).ret

IsReferenceSlot(time_slot) == \E i \in 1..Len(AllSlots) : AllSlots[i] = time_slot

Offered(sys, court_id, date, time_slot) ==
    \E i \in 1..Len(Available(sys, court_id, date)) :
        Available(sys, court_id, date)[i] = time_slot

\* the step cancels reservation rid: it returns true, the reservation is
\* 'cancelled', its slot is not in its court's schedule, and a 'completed'
\* entry is appended
Cancels(rid) ==
    /\ result'.exc = "none"
    /\ result'.ret = "True"
    /\ reservations'[rid].status = "cancelled"
    /\ LET r == reservations[rid]
           schedule == courts'[r.court].schedule
       IN  \A i \in 1..Len(schedule[r.date]) : schedule[r.date][i] # r.time_slot
    /\ AppendsOne
    /\ Last(transaction_log').type = "cancel_reservation"
    /\ Last(transaction_log').reservation_id = rid
    /\ Last(transaction_log').status = "completed"

\* the slot of reservation rid is not offered before the step and is after it
Reappears(rid) ==
    LET r == reservations[rid]
    IN  /\ ~Offered(System, r.court, r.date, r.time_slot)
        /\ Offered(System', r.court, r.date, r.time_slot)

\* C8 as stated: CancelReservation of an id in the registry returns true, sets
\* the status to 'cancelled', removes the slot from the schedule, appends a
\* 'completed' entry, and a reference slot is excluded from
\* GetAvailableTimeSlots before the cancellation and included after.
C8_Original ==
    [][\A rid \in ReservationIds :
          (Called("cancel_reservation", rid) /\ rid \in DOMAIN reservations)
          => /\ Cancels(rid)
             /\ IsReferenceSlot(reservations[rid].time_slot) => Reappears(rid)]_vars

\* C8 amended: the same, the exclusion before the cancellation being claimed
\* only when the slot is in the court's schedule before the call.
C8_CancelKnown ==
    [][\A rid \in ReservationIds :
          (Called("cancel_reservation", rid) /\ rid \in DOMAIN reservations)
          => /\ Cancels(rid)
             /\ LET r == reservations[rid]
                IN  (IsReferenceSlot(r.time_slot) /\ Booked(r.court, r.date, r.time_slot))
                    => Reappears(rid)]_vars

\* C8 witness: the first cancellation of the registry has returned true and
\* the reservation's slot is offered again.
C8_Witness ==
    /\ result.op = "cancel_reservation"
    /\ result.exc = "none"
    /\ Cardinality({i \in 1..Len(transaction_log) :
                       transaction_log[i].type = "cancel_reservation"}) = 1
    /\ LET r == reservations[result.id]
       IN  r.status = "cancelled" /\ Offered(System, r.court, r.date, r.time_slot)

\* C9: ProcessPayment on a reservation that is not 'pending' fails with
\* ReservationError and changes neither its status nor its cost; a
\* reservation becomes 'confirmed' only from 'pending' and never returns to
\* 'pending', so it is charged at most once.
C9_NonPendingPaymentRefused ==
    [][/\ \A rid \in DOMAIN reservations :
            (Called("process_payment", rid) /\ reservations[rid].status # "pending")
            => /\ result'.exc = "ReservationException"
               /\ reservations'[rid] = reservations[rid]
       /\ \A rid \in DOMAIN reservations :
            /\ (reservations'[rid].status = "confirmed"
                  /\ reservations[rid].status # "confirmed")
               => reservations[rid].status = "pending"
            /\ reservations[rid].status # "pending"
               => reservations'[rid].status # "pending"]_vars

\* C9 witness: a payment on a cancelled reservation was refused, while
\* another reservation is confirmed.
C9_Witness ==
    /\ result.op = "process_payment"
    /\ result.exc = "ReservationException"
    /\ reservations[result.id].status = "cancelled"
    /\ \E r \in DOMAIN reservations : reservations[r].status = "confirmed"

\* C10: for a pending reservation, ProcessPayment with 'credit' fails with
\* PaymentFailedError (P001) exactly when the cost is above 50; after the
\* failure the reservation is unchanged, and a following ProcessPayment with
\* 'cash' or 'online' succeeds and confirms it.
C10_CreditLimit ==
    [][\A rid \in DOMAIN reservations :
          /\ (Called("process_payment", rid) /\ reservations[rid].status = "pending"
                /\ ProcessPayment(rid, "credit"))
             => /\ result'.exc = "PaymentFailedError"
                   <=> reservations[rid].total_cost.v > 5000
                /\ result'.exc \in {"PaymentFailedError", "none"}
                /\ result'.exc = "PaymentFailedError"
                   => result'.error_code = "P001" /\ reservations' = reservations
          /\ (/\ result.op = "process_payment"
              /\ result.exc = "PaymentFailedError"
              /\ result.id = rid
              /\ Called("process_payment", rid)
              /\ ProcessPayment(rid, "cash") \/ ProcessPayment(rid, "online"))
             => /\ result'.exc = "none"
                /\ reservations'[rid] = [reservations[rid] EXCEPT !.status = "confirmed"]]_vars

\* C10 witness: a credit payment of a cost above 50 has failed with
\* PaymentFailedError and left the reservation pending.
C10_Witness ==
    /\ result.op = "process_payment"
    /\ result.exc = "PaymentFailedError"
    /\ reservations[result.id].status = "pending"
    /\ reservations[result.id].total_cost = Float(5001)

\* the previous call was a ProcessPayment on rid refused for its method
MethodRefused(rid) ==
    /\ result.op = "process_payment"
    /\ result.id = rid
    /\ result.exc = "ValueError"

\* a pending reservation paid with a method outside credit, cash and online:
\* ValueError, and the reservation is unchanged
InvalidMethodRefused(rid, payment_method) ==
    (/\ Called("process_payment", rid)
     /\ reservations[rid].status = "pending"
     /\ payment_method \notin {"credit", "cash", "online"}
     /\ ProcessPayment(rid, payment_method))
    => /\ result'.exc = "ValueError"
       /\ reservations' = reservations
       /\ reservations'[rid].status = "pending"

\* C11 as stated: for a pending reservation, ProcessPayment with a method
\* other than 'credit', 'cash' or 'online' fails with ValueError, not with
\* ReservationError, and leaves the status 'pending'; the next ProcessPayment
\* with a valid method succeeds.
C11_Original ==
    [][\A rid \in DOMAIN reservations : \A payment_method \in Methods :
          /\ InvalidMethodRefused(rid, payment_method)
          /\ (/\ MethodRefused(rid)
              /\ Called("process_payment", rid)
              /\ payment_method \in {"credit", "cash", "online"}
              /\ ProcessPayment(rid, payment_method))
             => /\ result'.exc = "none"
                /\ reservations'[rid].status = "confirmed"]_vars

\* C11 amended: the same, the next ProcessPayment succeeding with 'cash' or
\* 'online', and with 'credit' when the cost is at most 50.
C11_InvalidMethod ==
    [][\A rid \in DOMAIN reservations : \A payment_method \in Methods :
          /\ InvalidMethodRefused(rid, payment_method)
          /\ (/\ MethodRefused(rid)
              /\ Called("process_payment", rid)
              /\ \/ payment_method \in {"cash", "online"}
                 \/ /\ payment_method = "credit"
                    /\ reservations[rid].total_cost.t = "float"
                    /\ reservations[rid].total_cost.v <= 5000
              /\ ProcessPayment(rid, payment_method))
             => /\ result'.exc = "none"
                /\ reservations'[rid].status = "confirmed"]_vars

\* C11 witness: a payment by cheque was refused with ValueError and the
\* reservation is still pending.
C11_Witness ==
    /\ MethodRefused(result.id)
    /\ result.id \in DOMAIN reservations
    /\ reservations[result.id].status = "pending"

\* the rate is a positive real number, given as a number or as numeric text
PositiveReal(hourly_rate) ==
    hourly_rate.t \in {"float", "str_num"} /\ hourly_rate.v > 0

\* the rate is a number that is not a real (nan, infinity)
NotReal(hourly_rate) == hourly_rate.t \in {"nan", "inf"}

\* C12: constructing a Court fails with ReservationError, and with no other
\* kind, when the id is empty or not text or the rate is not a positive real
\* number (zero, negative, non-numeric text, a value that is neither a number
\* nor text); it succeeds with an empty schedule for a non-empty text id and
\* a positive rate, 0.01 included.
C12_CourtConstruction ==
    [][\A court_id \in CourtIdsObjects, hourly_rate \in RatesObjects :
          (Called("Court", court_id) /\ NewCourt(court_id, hourly_rate))
          => IF Truthy(court_id) /\ IsStr(court_id) /\ PositiveReal(hourly_rate)
             THEN /\ result'.exc = "none"
                  /\ result'.Court.court_id = court_id
                  /\ result'.Court.hourly_rate = Float(hourly_rate.v)
                  /\ result'.Court.schedule = EmptyDict
             ELSE IF Truthy(court_id) /\ IsStr(court_id) /\ NotReal(hourly_rate)
             THEN TRUE
             ELSE result'.exc = "ReservationException"]_vars

\* C13: AddCourt with an identifier already in the registry fails with
\* ReservationError whatever the rate, appends a 'failed' add_court entry
\* with a non-empty error description, and leaves the courts unchanged.
C13_DuplicateCourt ==
    [][\A court_id \in CourtIdsWide :
          (Called("add_court", court_id) /\ court_id \in DOMAIN courts)
          => /\ result'.exc = "ReservationException"
             /\ courts' = courts
             /\ reservations' = reservations
             /\ AppendsOne
             /\ Last(transaction_log').type = "add_court"
             /\ Last(transaction_log').court_id = court_id
             /\ Last(transaction_log').status = "failed"
             /\ Last(transaction_log').error # <<>>]_vars

\* C13 witness: a second AddCourt of a court with a booked slot has failed.
C13_Witness ==
    /\ result.op = "add_court"
    /\ result.exc = "ReservationException"
    /\ result.id \in DOMAIN courts
    /\ \E d \in Dates, s \in SlotsWide : Booked(result.id, d, s)
    /\ Last(transaction_log).status = "failed"

\* C14: MakeReservation fails with ReservationError when the reservation id
\* is in the registry, the id of a cancelled reservation included, or when
\* the court id is unknown; no reservation is stored and no schedule changes.
C14_KnownIdOrUnknownCourt ==
    [][\A rid \in ReservationIds, p \in Players, c \in CourtIds,
          d \in Dates, s \in Slots :
          (/\ Called("make_reservation", rid)
           /\ rid \in DOMAIN reservations \/ c \notin DOMAIN courts
           /\ MakeReservation(rid, p, c, d, s))
          => /\ result'.exc = "ReservationException"
             /\ result'.error_code = "None"
             /\ reservations' = reservations
             /\ courts' = courts]_vars

\* C14 witness: a MakeReservation with the id of a cancelled reservation,
\* for the slot the cancellation freed, has failed.
C14_Witness ==
    /\ result.op = "make_reservation"
    /\ result.exc = "ReservationException"
    /\ result.id \in DOMAIN reservations
    /\ LET r == reservations[result.id]
       IN  r.status = "cancelled" /\ ~Booked(r.court, r.date, r.time_slot)

\* the position of a reference slot in the reference order (0 for a label
\* outside the reference set)
ReferenceIndex(time_slot) ==
    IF time_slot = "09:00" THEN 1 ELSE IF time_slot = "10:00" THEN 2
    ELSE IF time_slot = "11:00" THEN 3 ELSE IF time_slot = "12:00" THEN 4
    ELSE IF time_slot = "13:00" THEN 5 ELSE IF time_slot = "14:00" THEN 6
    ELSE IF time_slot = "15:00" THEN 7 ELSE IF time_slot = "16:00" THEN 8
    ELSE IF time_slot = "17:00" THEN 9 ELSE IF time_slot = "18:00" THEN 10
    ELSE 0

ReferenceSlots == {"09:00", "10:00", "11:00", "12:00", "13:00",
                   "14:00", "15:00", "16:00", "17:00", "18:00"}

\* C15: for a known court and a date, GetAvailableTimeSlots returns exactly
\* the reference slots 09:00..18:00 that are not in the court's schedule for
\* the date, in the reference order, whatever labels outside the reference
\* set are booked; for an unknown court id it fails with ReservationError.
C15_AvailableSlots ==
    [][\A court_id \in CourtIdsDay, date \in Dates :
          (Called("get_available_time_slots", court_id)
             /\ GetAvailableTimeSlots(court_id, date))
          => IF court_id \in DOMAIN courts
             THEN LET slots == result'.list
                  IN  /\ result'.exc = "none"
                      /\ \A s \in ReferenceSlots :
                            InList(s, slots) <=> ~Booked(court_id, date, s)
                      /\ \A i \in 1..Len(slots) : slots[i] \in ReferenceSlots
                      /\ \A i, j \in 1..Len(slots) :
                            i < j => ReferenceIndex(slots[i]) < ReferenceIndex(slots[j])
             ELSE result'.exc = "ReservationException"]_vars

\* C15 witness: the slots of a court with 10:00 and 07:00 booked were
\* returned: the nine reference slots other than 10:00.
C15_Witness ==
    /\ result.op = "get_available_time_slots"
    /\ result.exc = "none"
    /\ Booked(result.id, "2023-07-01", "10:00")
    /\ Booked(result.id, "2023-07-01", "07:00")
    /\ Len(result.list) = 9

\* what a reservation id contributes to the revenue, in hundredths: its
\* cost when the registry holds it with status 'confirmed', else nothing
Revenue(reservation_id) ==
    IF /\ reservation_id \in DOMAIN reservations
       /\ reservations[reservation_id].status = "confirmed"
    THEN reservations[reservation_id].total_cost.v
    ELSE 0

\* C16: GenerateReport fails with ReservationError exactly when the registry
\* holds no reservation, of any status; otherwise it reports the number of
\* courts, the number of reservations, the number of 'confirmed' ones and
\* the sum of the costs of the confirmed ones only.
C16_Report ==
    [][result'.op = "generate_report"
       => IF DOMAIN reservations = {}
          THEN result'.exc = "ReservationException"
          ELSE /\ result'.exc = "none"
               /\ result'.dict.total_courts = Cardinality(DOMAIN courts)
               /\ result'.dict.total_reservations = Cardinality(DOMAIN reservations)
               /\ result'.dict.confirmed_reservations =
                     Cardinality({r \in DOMAIN reservations :
                                     reservations[r].status = "confirmed"})
               /\ result'.dict.total_revenue = Float(Revenue("R1") + Revenue("R2"))]_vars

\* C16 witness: the report of two confirmed reservations of cost 20.0 and
\* 25.0 gives a revenue of 45.0.
C16_Witness ==
    /\ result.op = "generate_report"
    /\ result.exc = "none"
    /\ result.dict.confirmed_reservations = 2
    /\ result.dict.total_revenue = Float(4500)

\* the registry of the end-to-end trace: court A at 20.0 with the given
\* list of slots under 2023-07-01 (no entry for the date when none is given),
\* reservation R1 of John for 10:00 in the given status (no reservation when
\* none is given), and the given journal
TraceRegistry(slots, status, journal) ==
    /\ courts = ("A" :> [class |-> "Court", court_id |-> "A",
                         hourly_rate |-> Float(2000),
                         schedule |-> IF slots = "none" THEN EmptyDict
                                      ELSE ("2023-07-01" :> slots)])
    /\ reservations = IF status = "none" THEN EmptyDict
                      ELSE ("R1" :> [reservation_id |-> "R1", player_name |-> "John",
                                     court |-> "A", date |-> "2023-07-01",
                                     time_slot |-> "10:00", status |-> status,
                                     total_cost |-> Float(2000)])
    /\ transaction_log = journal

TraceAdded == [type |-> "add_court", court_id |-> "A", status |-> "completed"]
TraceMade == [type |-> "make_reservation", reservation_id |-> "R1", status |-> "completed"]
TraceCancelled ==
    [type |-> "cancel_reservation", reservation_id |-> "R1", status |-> "completed"]

\* the registry after each step of the trace
Trace0 == courts = EmptyDict /\ reservations = EmptyDict /\ transaction_log = <<>>
Trace1 == TraceRegistry("none", "none", <<TraceAdded>>)
Trace2 == TraceRegistry(<<"10:00">>, "pending", <<TraceAdded, TraceMade>>)
Trace3 == TraceRegistry(<<"10:00">>, "confirmed", <<TraceAdded, TraceMade>>)
Trace4 == TraceRegistry(<<>>, "cancelled", <<TraceAdded, TraceMade, TraceCancelled>>)

\* C17: on a fresh registry, AddCourt('A', 20.0) succeeds; then
\* MakeReservation('R1','John','A','2023-07-01','10:00') succeeds; then
\* GetAvailableTimeSlots('A','2023-07-01') excludes 10:00 and includes 11:00;
\* ProcessPayment('cash') makes R1 'confirmed'; CancelReservation('R1')
\* returns true; and GetAvailableTimeSlots then includes 10:00 again.
C17_EndToEnd ==
    [][/\ (Trace0 /\ Called("add_court", "A") /\ AddCourt("A", Float(2000)))
          => result'.exc = "none" /\ Trace1'
       /\ (/\ Trace1
           /\ Called("make_reservation", "R1")
           /\ MakeReservation("R1", "John", "A", "2023-07-01", "10:00"))
          => result'.exc = "none" /\ Trace2'
       /\ (/\ Trace2
           /\ Called("get_available_time_slots", "A")
           /\ GetAvailableTimeSlots("A", "2023-07-01"))
          => /\ result'.exc = "none"
             /\ ~InList("10:00", result'.list)
             /\ InList("11:00", result'.list)
             /\ Trace2'
       /\ (Trace2 /\ Called("process_payment", "R1") /\ ProcessPayment("R1", "cash"))
          => result'.exc = "none" /\ Trace3'
       /\ (Trace3 /\ Called("cancel_reservation", "R1") /\ CancelReservation("R1"))
          => result'.exc = "none" /\ result'.ret = "True" /\ Trace4'
       /\ (/\ Trace4
           /\ Called("get_available_time_slots", "A")
           /\ GetAvailableTimeSlots("A", "2023-07-01"))
          => result'.exc = "none" /\ InList("10:00", result'.list)]_vars

\* C17 witness: the trace has been run to its end: R1 is cancelled after the
\* three journaled steps and the slots just returned include 10:00.
C17_Witness ==
    /\ Trace4
    /\ result.op = "get_available_time_slots"
    /\ result.id = "A"
    /\ InList("10:00", result.list)

\* the schedules of the courts other than court_id, and of court_id on the
\* dates other than date, are the same before and after the step
OtherSchedulesUnchanged(court_id, date) ==
    /\ DOMAIN courts' = DOMAIN courts
    /\ \A c \in DOMAIN courts :
          /\ courts'[c].court_id = courts[c].court_id
          /\ courts'[c].hourly_rate = courts[c].hourly_rate
          /\ \A d \in DOMAIN courts[c].schedule :
                (c # court_id \/ d # date)
                => /\ d \in DOMAIN courts'[c].schedule
                   /\ courts'[c].schedule[d] = courts[c].schedule[d]
          /\ DOMAIN courts'[c].schedule =
                DOMAIN courts[c].schedule \cup (IF c = court_id THEN {date} ELSE {})

\* C18: a MakeReservation that returns stores the reservation under its id
\* with status 'pending', the cost of its court and a reference to the
\* registry's court, adds the slot to that court's schedule for the date and
\* appends a 'completed' make_reservation entry; in one call a reservation
\* is stored exactly when a slot is added.
C18_MakeReservationStoresAndBooks ==
    [][\A rid \in ReservationIds, p \in Players, c \in CourtIds,
          d \in Dates, s \in Slots :
          (Called("make_reservation", rid) /\ MakeReservation(rid, p, c, d, s))
          => /\ result'.exc = "none"
                => /\ rid \notin DOMAIN reservations
                   /\ DOMAIN reservations' = DOMAIN reservations \cup {rid}
                   /\ \A r \in DOMAIN reservations : reservations'[r] = reservations[r]
                   /\ reservations'[rid].status = "pending"
                   /\ reservations'[rid].total_cost = courts[c].hourly_rate
                   /\ reservations'[rid].court = c
                   /\ reservations'[rid].court \in DOMAIN courts'
                   /\ reservations'[rid].player_name = p
                   /\ reservations'[rid].date = d
                   /\ reservations'[rid].time_slot = s
                   /\ ~Booked(c, d, s)
                   /\ d \in DOMAIN courts'[c].schedule
                   /\ courts'[c].schedule[d] =
                         (IF d \in DOMAIN courts[c].schedule
                          THEN courts[c].schedule[d] ELSE <<>>) \o <<s>>
                   /\ OtherSchedulesUnchanged(c, d)
                   /\ AppendsOne
                   /\ Last(transaction_log') =
                         [type |-> "make_reservation", reservation_id |-> rid,
                          status |-> "completed"]
             /\ reservations' # reservations <=> courts' # courts
             /\ reservations' # reservations => result'.exc = "none"]_vars

\* C18 witness: a second reservation was just stored, pending, at the cost
\* of its court, its slot booked after the slot of the first.
C18_Witness ==
    /\ result.op = "make_reservation"
    /\ result.exc = "none"
    /\ Cardinality(DOMAIN reservations) = 2
    /\ LET r == reservations[result.id]
       IN  /\ r.status = "pending"
           /\ r.total_cost = courts[r.court].hourly_rate
           /\ Len(courts[r.court].schedule[r.date]) = 2
           /\ Last(courts[r.court].schedule[r.date]) = r.time_slot

\* the slot is in the schedule of the Court object under the date
BookedIn(court, date, time_slot) ==
    /\ date \in DOMAIN court.schedule
    /\ \E i \in 1..Len(court.schedule[date]) : court.schedule[date][i] = time_slot

\* C19: constructing a Reservation fails with ReservationError, never with
\* ValueError, when the id or the player name is empty or the court is not a
\* Court, and with an unchanged CourtUnavailableError when the slot is
\* already booked; every failing construction leaves the schedules unchanged.
C19_ReservationConstruction ==
    [][\A rid \in ReservationIdsObjects, p \in PlayersWide, court \in CourtArguments,
          d \in DatesObjects, s \in Slots :
          (Called("Reservation", rid) /\ NewReservation(rid, p, court, d, s))
          => /\ (rid = "" \/ p = "" \/ court = NotACourt)
                => /\ result'.exc = "ReservationException"
                   /\ result'.error_code = "None"
             /\ (/\ rid # "" /\ p # "" /\ court # NotACourt
                 /\ d # ListVal
                 /\ BookedIn(court, d, s))
                => /\ result'.exc = "CourtUnavailableError"
                   /\ result'.error_code = "C001"
             /\ result'.exc # "ValueError"
             /\ result'.exc # "none" => courts' = courts]_vars

\* C19 witness: a construction on a court whose slot is booked has failed
\* with CourtUnavailableError, the schedule still holding the slot once.
C19_Witness ==
    /\ result.op = "Reservation"
    /\ result.exc = "CourtUnavailableError"
    /\ \E c \in DOMAIN courts : \E s \in Slots :
          /\ Booked(c, "2023-07-01", s)
          /\ Occurrences(c, "2023-07-01", s) = 1

\* the step leaves the reservation as it is, or takes it from 'pending' to
\* 'confirmed' by a ProcessPayment on it that returns, or from 'pending' or
\* 'confirmed' to 'cancelled' by a CancelReservation of it that returns
StatusStep(rid) ==
    LET before == reservations[rid].status
        after == reservations'[rid].status
    IN  \/ after = before
        \/ /\ before = "pending" /\ after = "confirmed"
           /\ Called("process_payment", rid)
           /\ result'.exc = "none"
        \/ /\ before \in {"pending", "confirmed"} /\ after = "cancelled"
           /\ Called("cancel_reservation", rid)
           /\ result'.exc = "none"

\* C21: a reservation's status is always 'pending', 'confirmed' or
\* 'cancelled'; it starts 'pending' and changes only from 'pending' to
\* 'confirmed' by a successful ProcessPayment and from 'pending' or
\* 'confirmed' to 'cancelled' by a successful CancelReservation; it never
\* returns to 'pending' and never leaves 'cancelled'.
C21_StatusLifecycle ==
    [][/\ \A rid \in DOMAIN reservations' :
            reservations'[rid].status \in {"pending", "confirmed", "cancelled"}
       /\ \A rid \in DOMAIN reservations' \ DOMAIN reservations :
            /\ reservations'[rid].status = "pending"
            /\ Called("make_reservation", rid)
            /\ result'.exc = "none"
       /\ \A rid \in DOMAIN reservations :
            rid \in DOMAIN reservations' /\ StatusStep(rid)]_vars

\* C21 witness: a confirmed reservation was just cancelled by a call that
\* returned, while another reservation is still pending.
C21_Witness ==
    /\ result.op = "cancel_reservation"
    /\ result.exc = "none"
    /\ reservations[result.id].status = "cancelled"
    /\ \E r \in DOMAIN reservations : reservations[r].status = "pending"
    /\ \E i \in 1..Len(transaction_log) :
          /\ transaction_log[i].type = "cancel_reservation"
          /\ transaction_log[i].status = "completed"

\* C22: Court.is_available has two outcomes: it returns true when the date
\* has no schedule entry or the slot is not in the date's entry, and it fails
\* with CourtUnavailableError when the slot is in the entry; it never returns
\* false and never changes the schedule.
C22_IsAvailable ==
    [][result'.op = "is_available" /\ "args" \in DOMAIN result' =>
         LET court_id == result'.id
             date == result'.args[1]
             time_slot == result'.args[2]
         IN  /\ courts' = courts
             /\ result'.ret # "False"
             /\ IF Booked(court_id, date, time_slot)
                THEN /\ result'.exc = "CourtUnavailableError"
                     /\ result'.error_code = "C001"
                     /\ result'.ret = "None"
                ELSE /\ result'.exc = "none"
                     /\ result'.ret = "True"]_vars

\* C22 witness: the court was asked about a slot it holds and refused.
C22_Witness ==
    /\ result.op = "is_available"
    /\ result.exc = "CourtUnavailableError"
    /\ Booked(result.id, result.args[1], result.args[2])

\* C22, the other outcome: a date with an entry that lacks the slot.
C22_WitnessFree ==
    /\ result.op = "is_available"
    /\ result.ret = "True"
    /\ result.args[1] \in DOMAIN courts[result.id].schedule

\* the stored reservation keeps its player, court, date, slot and total cost
SameBooking(before, after) ==
    /\ after.reservation_id = before.reservation_id
    /\ after.player_name = before.player_name
    /\ after.court = before.court
    /\ after.date = before.date
    /\ after.time_slot = before.time_slot
    /\ after.total_cost = before.total_cost

\* C23: courts and reservations are never removed from the registry: the set
\* of court ids and the set of reservation ids only grow, a cancelled
\* reservation stays stored under its id, and a stored reservation's player,
\* court, date, slot and total cost never change.
C23_NeverRemoved ==
    [][/\ \A court_id \in DOMAIN courts :
            /\ court_id \in DOMAIN courts'
            /\ courts'[court_id].court_id = courts[court_id].court_id
            /\ courts'[court_id].hourly_rate = courts[court_id].hourly_rate
       /\ \A rid \in DOMAIN reservations :
            /\ rid \in DOMAIN reservations'
            /\ SameBooking(reservations[rid], reservations'[rid])
            /\ reservations[rid].status = "cancelled"
                  => reservations'[rid].status = "cancelled"]_vars

\* C23 witness: a cancelled reservation is still stored: a MakeReservation
\* with its id has just been refused as a duplicate.
C23_Witness ==
    /\ result.op = "make_reservation"
    /\ result.exc = "ReservationException"
    /\ result.id \in DOMAIN reservations
    /\ reservations[result.id].status = "cancelled"

\* the status named by the completion notification of the step's call
Notified == result'.printed[Len(result'.printed)][2]

\* C24: every invocation of AddCourt, MakeReservation and CancelReservation
\* emits exactly one completion notification, as its last step, on every
\* path, and the status it names is the status ('completed' or 'failed') of
\* the journal entry the same invocation appended.
C24_NotificationMatchesJournal ==
    [][result'.op \in {"add_court", "make_reservation", "cancel_reservation"}
       => /\ Len(result'.printed) = 1
          /\ AppendsOne
          /\ Notified \in {"completed", "failed"}
          /\ Notified = Last(transaction_log').status]_vars

\* C25: every invocation of ProcessPayment emits, as its final step, one
\* 'Payment processing completed' notification whose status is 'successful'
\* exactly when the call returned a record (and the reservation became
\* 'confirmed') and 'failed' exactly when the call failed; the record's
\* status is never 'pending' at that point.
C25_PaymentNotification ==
    result.op = "process_payment" =>
        /\ Len(result.printed) = 1
        /\ result.printed[1][1] = "Payment processing completed: "
        /\ result.printed[1][2] \in {"successful", "failed"}
        /\ result.printed[1][2] = "failed" <=> result.exc # "none"
        /\ result.printed[1][2] = "successful" <=>
              /\ result.exc = "none"
              /\ result.ret = "payment_log"
              /\ result.payment_log.status = "successful"
              /\ result.payment_log.reservation_id = result.id
              /\ reservations[result.id].status = "confirmed"

\* C25 witness: a credit payment above the limit failed on a pending
\* reservation and was notified as failed.
C25_Witness ==
    /\ result.op = "process_payment"
    /\ result.exc = "PaymentFailedError"
    /\ result.printed = <<(<<"Payment processing completed: ", "failed">>)>>
    /\ reservations[result.id].status = "pending"

\* C25, the other outcome: a payment returned its record.
C25_WitnessSuccessful ==
    /\ result.op = "process_payment"
    /\ result.exc = "none"
    /\ result.printed = <<(<<"Payment processing completed: ", "successful">>)>>

(***************************************************************************)
(* SpecErrors: a client that constructs the errors of the taxonomy and     *)
(* renders them.                                                           *)
(***************************************************************************)
Messages == {"Test message", "Simple message", "Court A does not exist",
             "Invalid payment method", ""}
ErrorCodes == {"None", "", "E000", "C001", "P001", "0"}
CourtIdsErrors == {"A", "B", "C", "D", ""}
ReservationIdsErrors == {"R1", "R2", "R001", "R999", ""}
Amounts == {Float(2000), Float(5001), Float(5010), Float(1), Float(0), Float(-550),
            NaN, Inf}

NextErrors ==
    \/ \E message \in Messages, error_code \in ErrorCodes :
          NewReservationException(message, error_code)
    \/ \E court_id \in CourtIdsErrors, i \in 1..Len(AllSlots) :
          NewCourtUnavailableError(court_id, AllSlots[i])
    \/ \E reservation_id \in ReservationIdsErrors, amount \in Amounts :
          NewPaymentFailedError(reservation_id, amount)

SpecErrors == Init /\ [][NextErrors]_vars

\* what Python prints for the amounts of SpecErrors
AmountText(amount) ==
    CASE amount = Float(2000) -> "20.0"
      [] amount = Float(5001) -> "50.01"
      [] amount = Float(5010) -> "50.1"
      [] amount = Float(1) -> "0.01"
      [] amount = Float(0) -> "0.0"
      [] amount = Float(-550) -> "-5.5"
      [] amount = NaN -> "nan"
      [] amount = Inf -> "inf"

\* C26: a ReservationError renders as '[<code>] <message>' when it has a
\* code and as '<message>' otherwise; CourtUnavailableError carries code C001
\* and the message 'Court <id> is unavailable at <slot>', PaymentFailedError
\* code P001 and 'Payment failed for reservation <id>, amount: $<amount>'.
C26_Rendering ==
    /\ result.op = "ReservationException" /\ result.ret = "str" =>
          LET message == result.ReservationException[1]
              error_code == result.ReservationException[2]
          IN  result.str = IF error_code \in {"None", ""}
                           THEN <<message>>
                           ELSE <<"[", error_code, "] ", message>>
    /\ result.op = "CourtUnavailableError" /\ result.ret = "str" =>
          LET court_id == result.CourtUnavailableError[1]
              time_slot == result.CourtUnavailableError[2]
          IN  /\ result.error_code = "C001"
              /\ result.message = <<"Court ", court_id, " is unavailable at ", time_slot>>
              /\ result.str = <<"[", "C001", "] ">> \o result.message
    /\ result.op = "PaymentFailedError" /\ result.ret = "str" =>
          LET reservation_id == result.PaymentFailedError[1]
              amount == result.PaymentFailedError[2]
          IN  /\ result.error_code = "P001"
              /\ result.message = <<"Payment failed for reservation ", reservation_id,
                                    ", amount: $", AmountText(amount)>>
              /\ result.str = <<"[", "P001", "] ">> \o result.message

\* C26 witness: a PaymentFailedError for a non-integral amount was rendered.
C26_Witness ==
    /\ result.op = "PaymentFailedError"
    /\ result.ret = "str"
    /\ result.PaymentFailedError = <<"R1", Float(5001)>>
    /\ result.str = <<"[", "P001", "] ", "Payment failed for reservation ", "R1",
                      ", amount: $", "50.01">>

\* C26, a base error with a code and one without.
C26_WitnessCode ==
    /\ result.op = "ReservationException"
    /\ result.str = <<"[", "E000", "] ", "Test message">>

C26_WitnessNoCode ==
    /\ result.op = "ReservationException"
    /\ result.ReservationException[2] = ""
    /\ result.str = <<"Simple message">>

(***************************************************************************)
(* SpecTriple: one court, one slot and three reservation ids, with a       *)
(* journal long enough for a booking after a repeated cancellation.        *)
(***************************************************************************)
MaxLogTriple == 6
MaxFailedTriple == 0

ReservationIdsTriple == {"R1", "R2", "R3"}

NextTriple ==
    \/ AddCourt("A", Float(5000)) /\ Room(MaxLogTriple, MaxFailedTriple)
    \/ \E reservation_id \in ReservationIdsTriple :
          /\ MakeReservation(reservation_id, "John", "A", "2023-07-01", "10:00")
          /\ Room(MaxLogTriple, MaxFailedTriple)
    \/ \E reservation_id \in ReservationIdsTriple :
          CancelReservation(reservation_id) /\ Room(MaxLogTriple, MaxFailedTriple)
    \/ \E reservation_id \in ReservationIdsTriple : ProcessPayment(reservation_id, "cash")

SpecTriple == Init /\ [][NextTriple]_vars

\* C27: at most one non-cancelled reservation references any given court,
\* date and slot: two active reservations never hold the same slot of the
\* same court on the same date.
C27_OneActivePerSlot ==
    \A r1, r2 \in DOMAIN reservations :
        /\ reservations[r1].status # "cancelled"
        /\ reservations[r2].status # "cancelled"
        /\ reservations[r1].court = reservations[r2].court
        /\ reservations[r1].date = reservations[r2].date
        /\ reservations[r1].time_slot = reservations[r2].time_slot
        => r1 = r2

\* C28: CancelReservation applied to a reservation that is already
\* 'cancelled' changes no court schedule and no reservation status, whatever
\* happened since the first cancellation; only the journal grows.
C28_RepeatedCancellation ==
    [][\A rid \in DOMAIN reservations :
          /\ Called("cancel_reservation", rid)
          /\ reservations[rid].status = "cancelled"
          => /\ courts' = courts
             /\ reservations' = reservations
             /\ AppendsOne]_vars

\* C30: a CancelReservation fails only before the court's schedule is
\* changed: a failed cancellation leaves every schedule and every reservation
\* as it was, and its only notification is the completion notice: the
\* rollback step did not run.
C30_FailureBeforeMutation ==
    [][result'.op = "cancel_reservation" /\ result'.exc # "none"
       => /\ courts' = courts
          /\ reservations' = reservations
          /\ result'.id \notin DOMAIN reservations
          /\ Len(result'.printed) = 1
          /\ result'.printed[1][1] = "Cancellation transaction: "]_vars

\* C30 witness: a cancellation failed while a reservation of the registry
\* holds a slot.
C30_Witness ==
    /\ result.op = "cancel_reservation"
    /\ result.exc = "ReservationException"
    /\ Last(transaction_log).status = "failed"
    /\ \E r \in DOMAIN reservations :
          /\ reservations[r].status = "confirmed"
          /\ Booked(reservations[r].court, reservations[r].date, reservations[r].time_slot)

(***************************************************************************)
(* SpecThreads: two threads call add_court, make_reservation and           *)
(* cancel_reservation on one registry, a call advancing by one access to   *)
(* the shared dictionaries, lists and objects at a time.  A frame holds    *)
(* the position of a thread in its call (pc, named after the source line   *)
(* it is about to run), the identifier the call was given, the Court the   *)
(* call holds and the error it is handling.  A Court object is known by    *)
(* its key in the registry; when a store replaces the object under a key,  *)
(* the replaced object goes to orphans under a new name, and whoever held  *)
(* it holds it under that name.  With exclusion the callers take turns: a  *)
(* call begins only when no other call is in progress.                     *)
(***************************************************************************)
MaxCallsThreads == 2

RateThreads == Float(5000)
DateThreads == "2023-07-01"
SlotThreads == "10:00"

\* the reservation id a thread books under
ReservationIdOf == [t \in Threads |-> IF t = "T1" THEN "R1" ELSE "R2"]

InitThreads ==
    /\ courts = EmptyDict
    /\ reservations = EmptyDict
    /\ transaction_log = <<>>
    /\ next_reservation_id = 1
    /\ result = Outcome("init", "", NoExc, "None")
    /\ threads = [t \in Threads |-> IdleFrame]
    /\ orphans = EmptyDict
    /\ exclusion \in BOOLEAN

\* the Court object a name refers to
Deref(ref) == IF ref \in DOMAIN orphans THEN orphans[ref] ELSE courts[ref]

\* the thread moves on in its call
Goto(t, pc) ==
    threads' = [threads EXCEPT ![t].pc = pc]

\* the thread raises e inside the try block and moves to the handler
Throw(t, pc, e) ==
    threads' = [threads EXCEPT ![t].pc = pc, ![t].exc = e]

\* the call of the thread ends: what it printed last and how it ended
Return(t, status, prefix, exc, ret) ==
    /\ threads' = [threads EXCEPT ![t] = [IdleFrame EXCEPT !.calls = threads[t].calls]]
    /\ result' = With(Outcome(threads[t].op, threads[t].id, exc, ret),
                      "printed", <<(<<prefix, status>>)>>)

\* the transaction dict of the call the thread is in
Transaction(t) ==
    IF threads[t].op = "add_court"
    THEN [type |-> "add_court", court_id |-> threads[t].id, status |-> "pending"]
    ELSE [type |-> threads[t].op, reservation_id |-> threads[t].id, status |-> "pending"]

\* the else branch and the finally block: the journal entry, the notice, the return
Succeed(t, prefix, ret) ==
    /\ transaction_log' = append(transaction_log, Completed(Transaction(t)))
    /\ Return(t, "completed", prefix, NoExc, ret)
    /\ UNCHANGED <<courts, reservations, next_reservation_id, orphans, exclusion>>

\* the handler of ReservationException and the finally block
Fail(t, prefix) ==
    /\ transaction_log' = append(transaction_log, Failed(Transaction(t), threads[t].exc))
    /\ Return(t, "failed", prefix, threads[t].exc, "None")
    /\ UNCHANGED <<courts, reservations, next_reservation_id, orphans, exclusion>>

\* the object under the name is assigned
Assign(ref, court) ==
    /\ courts' = IF ref \in DOMAIN orphans THEN courts ELSE Put(courts, ref, court)
    /\ orphans' = IF ref \in DOMAIN orphans THEN Put(orphans, ref, court) ELSE orphans

\* a thread that is in no call begins one
Call(t, op, id) ==
    /\ threads[t].pc = "idle"
    /\ threads[t].calls < MaxCallsThreads
    /\ exclusion => \A u \in Threads : threads[u].pc = "idle"
    /\ threads' = [threads EXCEPT ![t] =
                      [pc |-> CASE op = "add_court" -> "add_131"
                                [] op = "make_reservation" -> "make_157"
                                [] op = "cancel_reservation" -> "cancel_189",
                       op |-> op, id |-> id, court |-> "", exc |-> NoExc,
                       calls |-> threads[t].calls + 1]]
    /\ UNCHANGED <<courts, reservations, transaction_log, next_reservation_id, result,
                   orphans, exclusion>>

\* add_court, lines 131-134: the presence check and the construction
AddCheck(t) ==
    /\ threads[t].pc = "add_131"
    /\ LET court_id == threads[t].id
           court == Court_init(court_id, RateThreads)
       IN  IF court_id \in DOMAIN courts
           THEN Throw(t, "add_137",
                      ReservationException(<<"Court ", court_id, " already exists">>))
           ELSE IF court.exc # NoExc
           THEN Throw(t, "add_137", court.exc)
           ELSE Goto(t, "add_142")
    /\ UNCHANGED <<courts, reservations, transaction_log, next_reservation_id, result,
                   orphans, exclusion>>

\* the name under which a replaced Court object is kept
OrphanName(court_id) == court_id \o "#" \o ToString(Cardinality(DOMAIN orphans))

\* add_court, line 142: self.courts[court_id] = court
AddStore(t) ==
    /\ threads[t].pc = "add_142"
    /\ LET court_id == threads[t].id
           name == OrphanName(court_id)
           held(ref) == IF ref = court_id /\ court_id \in DOMAIN courts
                        THEN name ELSE ref
       IN  /\ courts' = Put(courts, court_id, Court_init(court_id, RateThreads).obj)
           /\ orphans' = IF court_id \in DOMAIN courts
                         THEN Put(orphans, name, courts[court_id])
                         ELSE orphans
           /\ reservations' = [r \in DOMAIN reservations |->
                                 [reservations[r] EXCEPT !.court = held(@)]]
           /\ threads' = [u \in Threads |->
                             IF u = t THEN [threads[t] EXCEPT !.pc = "add_143"]
                             ELSE [threads[u] EXCEPT !.court = held(@)]]
    /\ UNCHANGED <<transaction_log, next_reservation_id, result, exclusion>>

\* add_court, lines 143-147
AddLog(t) ==
    /\ threads[t].pc = "add_143"
    /\ Succeed(t, "Court transaction: ", threads[t].id)

\* add_court, lines 137-140 and 146-147
AddExcept(t) ==
    /\ threads[t].pc = "add_137"
    /\ Fail(t, "Court transaction: ")

\* make_reservation, line 157
MakeCheckId(t) ==
    /\ threads[t].pc = "make_157"
    /\ IF threads[t].id \in DOMAIN reservations
       THEN Throw(t, "make_166",
                  ReservationException(<<"Reservation ", threads[t].id, " already exists">>))
       ELSE Goto(t, "make_160")
    /\ UNCHANGED <<courts, reservations, transaction_log, next_reservation_id, result,
                   orphans, exclusion>>

\* make_reservation, lines 160-164: the court is looked up and handed to the
\* constructor
MakeCheckCourt(t, court_id) ==
    /\ threads[t].pc = "make_160"
    /\ IF court_id \notin DOMAIN courts
       THEN Throw(t, "make_166",
                  ReservationException(<<"Court ", court_id, " does not exist">>))
       ELSE threads' = [threads EXCEPT ![t].pc = "init_68", ![t].court = court_id]
    /\ UNCHANGED <<courts, reservations, transaction_log, next_reservation_id, result,
                   orphans, exclusion>>

\* Reservation.__init__, lines 61-68: the arguments are valid; the court is asked
InitAvailable(t) ==
    /\ threads[t].pc = "init_68"
    /\ LET avail == is_available(Deref(threads[t].court), DateThreads, SlotThreads)
       IN  IF avail.exc # NoExc
           THEN Throw(t, "make_166", avail.exc)
           ELSE Goto(t, "init_82")
    /\ UNCHANGED <<courts, reservations, transaction_log, next_reservation_id, result,
                   orphans, exclusion>>

\* Reservation.__init__, line 82: if date not in court.schedule
InitTestDate(t) ==
    /\ threads[t].pc = "init_82"
    /\ IF DateThreads \notin DOMAIN Deref(threads[t].court).schedule
       THEN Goto(t, "init_83")
       ELSE Goto(t, "init_84")
    /\ UNCHANGED <<courts, reservations, transaction_log, next_reservation_id, result,
                   orphans, exclusion>>

\* Reservation.__init__, line 83: court.schedule[date] = []
InitNewDate(t) ==
    /\ threads[t].pc = "init_83"
    /\ Assign(threads[t].court,
              [Deref(threads[t].court) EXCEPT !.schedule = Put(@, DateThreads, <<>>)])
    /\ Goto(t, "init_84")
    /\ UNCHANGED <<reservations, transaction_log, next_reservation_id, result, exclusion>>

\* Reservation.__init__, line 84: court.schedule[date].append(time_slot)
InitAppend(t) ==
    /\ threads[t].pc = "init_84"
    /\ Assign(threads[t].court,
              [Deref(threads[t].court) EXCEPT
                 !.schedule[DateThreads] = append(@, SlotThreads)])
    /\ Goto(t, "make_172")
    /\ UNCHANGED <<reservations, transaction_log, next_reservation_id, result, exclusion>>

\* make_reservation, line 172: self.reservations[reservation_id] = reservation
MakeStore(t) ==
    /\ threads[t].pc = "make_172"
    /\ reservations' =
          Put(reservations, threads[t].id,
              [reservation_id |-> threads[t].id, player_name |-> "John",
               court |-> threads[t].court, date |-> DateThreads,
               time_slot |-> SlotThreads, status |-> "pending",
               total_cost |-> Deref(threads[t].court).hourly_rate])
    /\ Goto(t, "make_173")
    /\ UNCHANGED <<courts, transaction_log, next_reservation_id, result, orphans,
                   exclusion>>

\* make_reservation, lines 173-177
MakeLog(t) ==
    /\ threads[t].pc = "make_173"
    /\ Succeed(t, "Reservation transaction: ", threads[t].id)

\* make_reservation, lines 166-169 and 176-177
MakeExcept(t) ==
    /\ threads[t].pc = "make_166"
    /\ Fail(t, "Reservation transaction: ")

\* cancel_reservation, lines 189-197
CancelCheck(t) ==
    /\ threads[t].pc = "cancel_189"
    /\ IF threads[t].id \notin DOMAIN reservations
       THEN Throw(t, "cancel_206",
                  ReservationException(<<"Reservation ", threads[t].id, " does not exist">>))
       ELSE Goto(t, "cancel_199")
    /\ UNCHANGED <<courts, reservations, transaction_log, next_reservation_id, result,
                   orphans, exclusion>>

\* cancel_reservation, line 199: is the slot in the court's schedule
CancelTest(t) ==
    /\ threads[t].pc = "cancel_199"
    /\ LET reservation == reservations[threads[t].id]
           court == Deref(reservation.court)
       IN  IF /\ reservation.date \in DOMAIN court.schedule
              /\ InList(reservation.time_slot, court.schedule[reservation.date])
           THEN Goto(t, "cancel_200")
           ELSE Goto(t, "cancel_203")
    /\ UNCHANGED <<courts, reservations, transaction_log, next_reservation_id, result,
                   orphans, exclusion>>

\* cancel_reservation, lines 200-201: court.schedule[date].remove(time_slot);
\* list.remove raises ValueError, which no handler of the call catches, when
\* the slot is no longer in the list
CancelRemove(t) ==
    /\ threads[t].pc = "cancel_200"
    /\ LET reservation == reservations[threads[t].id]
           court == Deref(reservation.court)
       IN  IF InList(reservation.time_slot, court.schedule[reservation.date])
           THEN /\ Assign(reservation.court,
                          [court EXCEPT !.schedule[reservation.date] =
                                           Remove(@, reservation.time_slot)])
                /\ Goto(t, "cancel_203")
                /\ UNCHANGED result
           ELSE /\ Return(t, "pending", "Cancellation transaction: ",
                          ValueError(<<"list.remove(x): x not in list">>), "None")
                /\ UNCHANGED <<courts, orphans>>
    /\ UNCHANGED <<reservations, transaction_log, next_reservation_id, exclusion>>

\* cancel_reservation, line 203: reservation.status = "cancelled"
CancelStatus(t) ==
    /\ threads[t].pc = "cancel_203"
    /\ reservations' = [reservations EXCEPT ![threads[t].id].status = "cancelled"]
    /\ Goto(t, "cancel_216")
    /\ UNCHANGED <<courts, transaction_log, next_reservation_id, result, orphans,
                   exclusion>>

\* cancel_reservation, lines 216-220
CancelLog(t) ==
    /\ threads[t].pc = "cancel_216"
    /\ Succeed(t, "Cancellation transaction: ", "True")

\* cancel_reservation, lines 206-214 and 219-220: the handler runs with
\* court_updated false, the only raise of the try block being line 190
CancelExcept(t) ==
    /\ threads[t].pc = "cancel_206"
    /\ Fail(t, "Cancellation transaction: ")

NextThreads ==
    \/ \E t \in Threads : Call(t, "add_court", "A")
    \/ \E t \in Threads : Call(t, "make_reservation", ReservationIdOf[t])
    \/ \E t \in Threads, reservation_id \in {"R1", "R2"} :
          Call(t, "cancel_reservation", reservation_id)
    \/ \E t \in Threads : AddCheck(t)
    \/ \E t \in Threads : AddStore(t)
    \/ \E t \in Threads : AddLog(t)
    \/ \E t \in Threads : AddExcept(t)
    \/ \E t \in Threads : MakeCheckId(t)
    \/ \E t \in Threads : MakeCheckCourt(t, "A")
    \/ \E t \in Threads : InitAvailable(t)
    \/ \E t \in Threads : InitTestDate(t)
    \/ \E t \in Threads : InitNewDate(t)
    \/ \E t \in Threads : InitAppend(t)
    \/ \E t \in Threads : MakeStore(t)
    \/ \E t \in Threads : MakeLog(t)
    \/ \E t \in Threads : MakeExcept(t)
    \/ \E t \in Threads : CancelCheck(t)
    \/ \E t \in Threads : CancelTest(t)
    \/ \E t \in Threads : CancelRemove(t)
    \/ \E t \in Threads : CancelStatus(t)
    \/ \E t \in Threads : CancelLog(t)
    \/ \E t \in Threads : CancelExcept(t)

SpecThreads == InitThreads /\ [][NextThreads]_vars

\* a slot of a court of the registry is recorded twice and held by two
\* active reservations
DoubleBooked ==
    \E c \in DOMAIN courts : \E d \in DOMAIN courts[c].schedule :
        \E i \in 1..Len(courts[c].schedule[d]) :
            /\ Occurrences(c, d, courts[c].schedule[d][i]) >= 2
            /\ Cardinality(Active(c, d, courts[c].schedule[d][i])) >= 2

\* two AddCourt calls with the same id are both past the presence check
BothPastCheck ==
    \E t, u \in Threads :
        /\ t # u
        /\ threads[t].pc = "add_142"
        /\ threads[u].pc = "add_142"
        /\ threads[t].id = threads[u].id

\* the journal holds two completed add_court entries with the same id
AddedTwice ==
    \E i, j \in 1..Len(transaction_log) :
        /\ i < j
        /\ transaction_log[i].type = "add_court"
        /\ transaction_log[j].type = "add_court"
        /\ transaction_log[i].status = "completed"
        /\ transaction_log[j].status = "completed"
        /\ transaction_log[i].court_id = transaction_log[j].court_id

\* C29: when the steps of concurrent callers interleave with no mutual
\* exclusion, a slot can end recorded twice and held by two active
\* reservations, and two AddCourt calls with the same id can both pass the
\* presence check; when each operation runs atomically, none of these states
\* is reachable.
C29_AtomicCallsAreSafe ==
    exclusion => ~DoubleBooked /\ ~BothPastCheck /\ ~AddedTwice

\* C29 witness: without exclusion both AddCourt calls for court A completed,
\* and the slot is recorded twice and held by R1 and R2.
C29_Witness ==
    /\ ~exclusion
    /\ AddedTwice
    /\ DoubleBooked
    /\ \A t \in Threads : threads[t].pc = "idle"

\* C29, the moment both AddCourt calls are past the presence check
C29_WitnessBothPastCheck ==
    ~exclusion /\ BothPastCheck

\* C31: a failed AddCourt or MakeReservation leaves the set of courts, every
\* court's rate and schedule, the set of reservations and every
\* reservation's status as before the call; the only state change is the one
\* 'failed' journal entry.
C31_FailedCallChangesNothing ==
    [][result'.op \in {"add_court", "make_reservation"} /\ result'.exc # "none"
       => /\ courts' = courts
          /\ reservations' = reservations
          /\ next_reservation_id' = next_reservation_id
          /\ AppendsOne
          /\ Last(transaction_log').status = "failed"]_vars

(***************************************************************************)
(* SpecRates: the registry called with rates of every kind, and            *)
(* reservations and payments on the courts it accepted.                    *)
(***************************************************************************)
MaxLogRates == 3
MaxFailedRates == 1

CourtIdsRates == {"A", "B", ""}
MethodsRates == {"credit", "cash", "cheque"}

NextRates ==
    \/ \E court_id \in CourtIdsRates, hourly_rate \in RatesObjects :
          AddCourt(court_id, hourly_rate) /\ Room(MaxLogRates, MaxFailedRates)
    \/ \E reservation_id \in {"R1", "R2"}, court_id \in CourtIdsRates :
          /\ MakeReservation(reservation_id, "John", court_id, "2023-07-01", "10:00")
          /\ Room(MaxLogRates, MaxFailedRates)
    \/ \E reservation_id \in {"R1", "R2"}, payment_method \in MethodsRates :
          ProcessPayment(reservation_id, payment_method)

SpecRates == Init /\ [][NextRates]_vars

\* C32: every court of the registry is stored under its own identifier, a
\* non-empty text, and has an hourly rate that is a positive finite real
\* number; every reservation is stored under its own identifier and its
\* total cost is its court's hourly rate.
C32_StoredObjectsAreValid ==
    /\ \A c \in DOMAIN courts :
          /\ courts[c].court_id = c
          /\ Truthy(c) /\ IsStr(c)
          /\ courts[c].hourly_rate.t = "float"
          /\ courts[c].hourly_rate.v > 0
    /\ \A r \in DOMAIN reservations :
          /\ reservations[r].reservation_id = r
          /\ reservations[r].court \in DOMAIN courts
          /\ reservations[r].total_cost = courts[reservations[r].court].hourly_rate

\* C33: ProcessPayment checks the reservation's status first, then the
\* payment method, then the credit limit: on a non-pending reservation an
\* invalid method still yields ReservationException, and on a pending one an
\* invalid method yields ValueError whatever the total cost.
C33_PaymentCheckOrder ==
    [][\A rid \in DOMAIN reservations, payment_method \in MethodsRates :
          /\ Called("process_payment", rid)
          /\ ProcessPayment(rid, payment_method)
          => result'.exc =
                IF reservations[rid].status # "pending" THEN "ReservationException"
                ELSE IF payment_method \notin {"credit", "cash", "online"} THEN "ValueError"
                ELSE IF payment_method = "credit" /\ GtLimit(reservations[rid].total_cost)
                THEN "PaymentFailedError"
                ELSE "none"]_vars

\* C33 witness: a payment on a confirmed reservation of a court with a rate
\* above the limit was refused for its status.
C33_Witness ==
    /\ result.op = "process_payment"
    /\ result.exc = "ReservationException"
    /\ reservations[result.id].status = "confirmed"
    /\ GtLimit(reservations[result.id].total_cost)

\* C33, an invalid method on a pending reservation with a cost above the limit
C33_WitnessInvalidMethod ==
    /\ result.op = "process_payment"
    /\ result.exc = "ValueError"
    /\ reservations[result.id].status = "pending"
    /\ GtLimit(reservations[result.id].total_cost)

\* a reservation id the registry never holds, and dates to ask about
FreshId == "R0"
DatesAsked == {"2023-07-01", "2023-07-02"}

\* a MakeReservation with a fresh id and a player name would return
WouldSucceed(court_id, date, time_slot) ==
    make_reservation(System, FreshId, "John", court_id, date, time_slot).exc = NoExc

\* C34: for every known court, every date and every slot of the reference
\* set, the slot is in the result of GetAvailableTimeSlots(court, date) if
\* and only if a MakeReservation with a fresh id and a non-empty player name
\* for that court, date and slot would succeed.
C34_OfferedIffBookable ==
    \A court_id \in DOMAIN courts, date \in DatesAsked :
        LET offered == get_available_time_slots(System, court_id, date)
        IN  /\ offered.exc = NoExc
            /\ \A time_slot \in ReferenceSlots :
                  InList(time_slot, offered.ret)
                     <=> WouldSucceed(court_id, date, time_slot)

\* C34 witness: court A has 10:00 booked, so 10:00 is neither offered nor
\* bookable, while 11:00 is both, and a slot outside the reference set is
\* booked as well.
C34_Witness ==
    /\ "A" \in DOMAIN courts
    /\ FreshId \notin DOMAIN reservations
    /\ Booked("A", "2023-07-01", "10:00")
    /\ Booked("A", "2023-07-01", "07:00")
    /\ ~WouldSucceed("A", "2023-07-01", "10:00")
    /\ ~InList("10:00", get_available_time_slots(System, "A", "2023-07-01").ret)
    /\ WouldSucceed("A", "2023-07-01", "11:00")
    /\ InList("11:00", get_available_time_slots(System, "A", "2023-07-01").ret)

\* the positions of the completed journal entries of a kind
CompletedEntries(type) ==
    {i \in 1..Len(transaction_log) :
        /\ transaction_log[i].type = type
        /\ transaction_log[i].status = "completed"}

\* C35: the journal agrees with the collections: there are as many completed
\* add_court entries as courts and as many completed make_reservation
\* entries as reservations; every cancelled reservation has a completed
\* cancel_reservation entry with its id, and each such entry comes after the
\* completed make_reservation entry of the same id.
C35_JournalAgrees ==
    /\ Cardinality(CompletedEntries("add_court")) = Cardinality(DOMAIN courts)
    /\ Cardinality(CompletedEntries("make_reservation")) = Cardinality(DOMAIN reservations)
    /\ \A c \in DOMAIN courts :
          \E i \in CompletedEntries("add_court") : transaction_log[i].court_id = c
    /\ \A r \in DOMAIN reservations :
          /\ \E i \in CompletedEntries("make_reservation") :
                transaction_log[i].reservation_id = r
          /\ reservations[r].status = "cancelled"
                => \E j \in CompletedEntries("cancel_reservation") :
                      transaction_log[j].reservation_id = r
    /\ \A j \in CompletedEntries("cancel_reservation") :
          \E i \in CompletedEntries("make_reservation") :
              /\ i < j
              /\ transaction_log[i].reservation_id = transaction_log[j].reservation_id

\* C35 witness: R1 was cancelled twice and R2 made in between; the journal
\* holds one add_court, two make_reservation and two cancel_reservation
\* entries, all completed.
C35_Witness ==
    /\ Cardinality(CompletedEntries("cancel_reservation")) = 2
    /\ Cardinality(CompletedEntries("make_reservation")) = 2
    /\ Cardinality(DOMAIN reservations) = 2
    /\ \E r \in DOMAIN reservations : reservations[r].status = "cancelled"
    /\ \E r \in DOMAIN reservations : reservations[r].status # "cancelled"

\* C36: ProcessPayment, whether it succeeds or fails, changes nothing but the
\* status of the reservation it is called on: the courts and their
\* schedules, the journal, the sets of courts and reservations, the
\* reservation counter and every other reservation are unchanged.
C36_PaymentFrame ==
    [][result'.op = "process_payment"
       => /\ courts' = courts
          /\ transaction_log' = transaction_log
          /\ next_reservation_id' = next_reservation_id
          /\ DOMAIN reservations' = DOMAIN reservations
          /\ \A r \in DOMAIN reservations :
                IF r = result'.id
                THEN reservations'[r]
                        = [reservations[r] EXCEPT !.status = reservations'[r].status]
                ELSE reservations'[r] = reservations[r]]_vars

\* C36 witness: a payment confirmed one reservation while another one of the
\* registry is pending and the journal holds three entries.
C36_Witness ==
    /\ result.op = "process_payment"
    /\ result.exc = "none"
    /\ reservations[result.id].status = "confirmed"
    /\ \E r \in DOMAIN reservations : r # result.id /\ reservations[r].status = "pending"
    /\ Len(transaction_log) = 3

\* C36, a payment that failed
C36_WitnessFailed ==
    /\ result.op = "process_payment"
    /\ result.exc = "PaymentFailedError"
    /\ reservations[result.id].status = "pending"
    /\ Len(transaction_log) = 3

\* C37: the queries GetAvailableTimeSlots and GenerateReport, whether they
\* succeed or fail, leave the registry unchanged: courts, schedules,
\* reservations, statuses, the journal and the reservation counter.
C37_QueriesChangeNothing ==
    [][result'.op \in {"get_available_time_slots", "generate_report"}
       => /\ courts' = courts
          /\ reservations' = reservations
          /\ transaction_log' = transaction_log
          /\ next_reservation_id' = next_reservation_id]_vars

\* C37 witness: the slots of an unknown court were asked for and refused,
\* in a registry that holds a court with a booked slot.
C37_Witness ==
    /\ result.op = "get_available_time_slots"
    /\ result.exc = "ReservationException"
    /\ result.id \notin DOMAIN courts
    /\ \E r \in DOMAIN reservations :
          Booked(reservations[r].court, reservations[r].date, reservations[r].time_slot)

\* C37, a report that was returned and one that was refused
C37_WitnessReport ==
    /\ result.op = "generate_report"
    /\ result.exc = "none"
    /\ Len(transaction_log) >= 2

C37_WitnessNoReport ==
    /\ result.op = "generate_report"
    /\ result.exc = "ReservationException"
    /\ DOMAIN courts # {}

(***************************************************************************)
(* SpecMenu: the menu loop of main on the registry it sets up with the     *)
(* courts A, B and C.  One action is one pass of the loop: the choice and  *)
(* the texts the user types are its inputs.                                *)
(***************************************************************************)
MaxLogMenu == 7

PlayersMenu == {"John", ""}
CourtIdsMenu == {"A", "Z"}
SlotInputs == {"1", "11", "x"}
MethodInputs == {"cash", "Credit", "cheque"}
ReservationIdsMenu == {"R1", "R2", "R9"}

\* str.lower on the texts typed as payment method
lower(text) == IF text = "Credit" THEN "credit" ELSE text

\* int(text) on the texts typed as slot number: [exc, val]
int(text) ==
    CASE text = "1" -> [exc |-> NoExc, val |-> 1]
      [] text = "11" -> [exc |-> NoExc, val |-> 11]
      [] OTHER -> [exc |-> ValueError(<<"invalid literal for int() with base 10">>),
                   val |-> 0]

\* mutant of Mint: the counter is not advanced
Mint_stuck(counter) ==
    [reservation_id |-> "R" \o ToString(counter), next |-> counter]

\* main, lines 373-374: the identifier minted from the counter, and the
\* counter after it
Mint(counter) ==
    [reservation_id |-> "R" \o ToString(counter), next |-> counter + 1]

\* the registry main sets up, lines 291-299
Started ==
    LET empty == [courts |-> EmptyDict, reservations |-> EmptyDict,
                  transaction_log |-> <<>>]
        a == add_court(empty, "A", Float(2000)).sys
        b == add_court(a, "B", Float(2500)).sys
    IN  add_court(b, "C", Float(3000)).sys

InitMenu ==
    /\ courts = Started.courts
    /\ reservations = Started.reservations
    /\ transaction_log = Started.transaction_log
    /\ next_reservation_id = 1
    /\ result = Outcome("init", "", NoExc, "None")
    /\ threads = [t \in Threads |-> IdleFrame]
    /\ orphans = EmptyDict
    /\ exclusion = TRUE

\* what a pass of the loop did: the registry and the counter after it, what
\* it told the user, the reservation id it minted and the error it caught
Pass(sys, counter, ret, id, caught) ==
    [sys |-> sys, counter |-> counter, ret |-> ret, id |-> id, caught |-> caught.kind]

\* main, choice 2 (lines 324-391)
menu_make_reservation(sys, counter, player_name, court_id, date, slot_input, method_input) ==
    IF ~Truthy(player_name)
    THEN Pass(sys, counter, "Name cannot be empty", "", NoExc)
    ELSE IF court_id \notin DOMAIN sys.courts
    THEN Pass(sys, counter, "Court does not exist", "", NoExc)
    ELSE
    LET available_slots == get_available_time_slots(sys, court_id, date).ret
        slot_choice == int(slot_input)
    IN  IF available_slots = <<>>
        THEN Pass(sys, counter, "No available time slots", "", NoExc)
        ELSE IF slot_choice.exc # NoExc
        THEN Pass(sys, counter, "Reservation failed", "", slot_choice.exc)
        ELSE IF slot_choice.val < 1 \/ slot_choice.val > Len(available_slots)
        THEN Pass(sys, counter, "Invalid selection", "", NoExc)
        ELSE
        LET minted == Mint(counter)
            reservation_id == minted.reservation_id
            made == make_reservation(sys, reservation_id, player_name, court_id, date,
                                     available_slots[slot_choice.val])
        IN  IF made.exc # NoExc
            THEN Pass(made.sys, minted.next, "Reservation failed", reservation_id,
                      made.exc)
            ELSE
            LET paid == process_payment(made.sys.reservations[reservation_id],
                                        lower(method_input))
                after == [made.sys EXCEPT
                            !.reservations = Put(@, reservation_id, paid.obj)]
            IN  IF paid.exc # NoExc
                THEN Pass(after, minted.next, "Reservation failed", reservation_id,
                          paid.exc)
                ELSE Pass(after, minted.next, "Reservation confirmed", reservation_id,
                          NoExc)

\* main, choice 3 (lines 393-411)
menu_cancel_reservation(sys, counter, reservation_id) ==
    IF DOMAIN sys.reservations = {}
    THEN Pass(sys, counter, "No reservations exist in the system.", "", NoExc)
    ELSE LET cancelled == cancel_reservation(sys, reservation_id)
         IN  IF cancelled.exc # NoExc
             THEN Pass(cancelled.sys, counter, "Cancellation failed", reservation_id,
                       cancelled.exc)
             ELSE Pass(cancelled.sys, counter, "cancelled successfully", reservation_id,
                       NoExc)

\* a pass of the loop takes effect
Loop(op, pass) ==
    /\ courts' = pass.sys.courts
    /\ reservations' = pass.sys.reservations
    /\ transaction_log' = pass.sys.transaction_log
    /\ next_reservation_id' = pass.counter
    /\ result' = With(Outcome(op, pass.id, NoExc, pass.ret), "caught", pass.caught)
    /\ Len(transaction_log') <= MaxLogMenu
    /\ UNCHANGED callers

MenuMakeReservation(player_name, court_id, date, slot_input, method_input) ==
    Loop("menu_make_reservation",
         menu_make_reservation(System, next_reservation_id, player_name, court_id, date,
                               slot_input, method_input))

MenuCancelReservation(reservation_id) ==
    Loop("menu_cancel_reservation",
         menu_cancel_reservation(System, next_reservation_id, reservation_id))

\* main, choice 5 (lines 430-441): the report, or the refusal caught
MenuGenerateReport(today) ==
    LET report == generate_report(System, today)
    IN  Loop("menu_generate_report",
             Pass(System, next_reservation_id,
                  IF report.exc = NoExc THEN "report" ELSE "Report generation failed",
                  "", report.exc))

NextMenu ==
    \/ \E player_name \in PlayersMenu, court_id \in CourtIdsMenu,
          slot_input \in SlotInputs, method_input \in MethodInputs :
          MenuMakeReservation(player_name, court_id, "2023-07-01", slot_input,
                              method_input)
    \/ \E reservation_id \in ReservationIdsMenu : MenuCancelReservation(reservation_id)
    \/ \E today \in Clock : MenuGenerateReport(today)

SpecMenu == InitMenu /\ [][NextMenu]_vars

\* the slot of the reservation is in its court's schedule, is not offered by
\* GetAvailableTimeSlots and is refused to another booking
SlotHeld(r) ==
    LET court_id == reservations[r].court
        date == reservations[r].date
        time_slot == reservations[r].time_slot
    IN  /\ Booked(court_id, date, time_slot)
        /\ ~InList(time_slot, get_available_time_slots(System, court_id, date).ret)
        /\ ~WouldSucceed(court_id, date, time_slot)

\* C38: in the menu's make-a-reservation flow, when ProcessPayment fails after
\* MakeReservation succeeded, the flow reports the failure, the reservation
\* stays in the registry with status 'pending' and its slot stays booked, not
\* offered and refused to other bookings, until that reservation is cancelled.
C38_FailedPaymentKeepsSlot ==
    [][/\ /\ result'.op = "menu_make_reservation"
          /\ result'.ret = "Reservation failed"
          /\ result'.id \in DOMAIN reservations'
          => reservations'[result'.id].status = "pending"
       /\ \A r \in DOMAIN reservations :
             reservations[r].status = "pending"
             => /\ r \in DOMAIN reservations'
                /\ \/ reservations'[r].status = "pending"
                   \/ /\ reservations'[r].status = "cancelled"
                      /\ Called("menu_cancel_reservation", r)
       /\ \A r \in DOMAIN reservations' :
             reservations'[r].status = "pending" => SlotHeld(r)']_vars

\* the identifiers minted from the counter so far
Minted(counter) == {"R" \o ToString(k) : k \in 1 .. counter - 1}

\* the pass of the loop called make_reservation: the journal got its entry
MenuCalledMake ==
    /\ result'.op = "menu_make_reservation"
    /\ Len(transaction_log') # Len(transaction_log)

\* C39: the reservation counter starts at 1 and never decreases; a pass of the
\* menu that calls make_reservation advances it by exactly one, whether the
\* pass then ends confirmed or failed, and every other operation leaves it
\* alone; the identifier minted is 'R'+counter, was never stored before, and
\* the make_reservation issued with it is not refused as a duplicate
C39_CounterMintsFreshIds ==
    [][/\ next_reservation_id >= 1
       /\ DOMAIN reservations \subseteq Minted(next_reservation_id)
       /\ IF MenuCalledMake
          THEN /\ next_reservation_id' = next_reservation_id + 1
               /\ result'.id = "R" \o ToString(next_reservation_id)
               /\ result'.id \notin Minted(next_reservation_id)
               /\ result'.id \notin DOMAIN reservations
               /\ result'.id \in DOMAIN reservations'
               /\ AppendsOne
               /\ Last(transaction_log').type = "make_reservation"
               /\ Last(transaction_log').status = "completed"
               /\ result'.caught \in {"none", "ValueError"}
          ELSE /\ next_reservation_id' = next_reservation_id
               /\ DOMAIN reservations' = DOMAIN reservations]_vars

\* two identifiers were minted, the second for a reservation whose payment
\* failed, while the first reservation was cancelled in between
C39_Witness ==
    /\ next_reservation_id = 3
    /\ DOMAIN reservations = {"R1", "R2"}
    /\ reservations["R1"].status = "cancelled"
    /\ result.op = "menu_make_reservation"
    /\ result.id = "R2"
    /\ result.ret = "Reservation failed"

\* the registry's own operations leave the counter where the constructor put it
C39_RegistryLeavesCounter == next_reservation_id = 1
====
